---- MODULE Spec2Model ----
(***************************************************************************)
(* VTU EduMate RAG pipeline: the generation client (gemini_client), the    *)
(* JSON index store (indexer), the retriever's index access and the        *)
(* /api/rag/ask POST handler, as state machines.                           *)
(***************************************************************************)
EXTENDS Integers, Sequences, FiniteSets, TLC

(***************************************************************************)
(* Bounds of the model.                                                    *)
(***************************************************************************)
\* longest raw text a generation model returns, in characters
MaxTextLen == 3

(***************************************************************************)
(* Text: a sequence of characters; " " stands for any whitespace           *)
(* character, "a" for any other character.                                 *)
(***************************************************************************)
Chars == {" ", "a"}

RECURSIVE SeqsUpTo(_, _)
SeqsUpTo(S, n) ==
  IF n = 0 THEN {<<>>}
  ELSE LET shorter == SeqsUpTo(S, n - 1)
       IN  shorter \cup {Append(s, c) : s \in shorter, c \in S}

Texts == SeqsUpTo(Chars, MaxTextLen)

RECURSIVE TrimStart(_)
TrimStart(t) == IF t # <<>> /\ Head(t) = " " THEN TrimStart(Tail(t)) ELSE t

RECURSIVE TrimEnd(_)
TrimEnd(t) ==
  IF t # <<>> /\ t[Len(t)] = " " THEN TrimEnd(SubSeq(t, 1, Len(t) - 1)) ELSE t

\* a plausible slip: only leading whitespace is removed
TrimLeadingOnly(t) == TrimStart(t)

\* String.prototype.trim
Trim(t) == TrimEnd(TrimStart(t))

(***************************************************************************)
(* Generation client configuration.                                        *)
(***************************************************************************)
GEN_MODEL == "primary"
GEN_MODEL_FALLBACK == "fallback"
maxRetries == 3

VARIABLES
  apiKey,     \* GEMINI_API_KEY is set
  gPc,        \* position of the generateFromPrompt invocation
  gModel,     \* model generateWithModel is running against
  gAttempt,   \* generateWithModel's loop counter
  gDelay,     \* delayMs of the pending backoff timer
  gLog,       \* the calls issued to the service by this invocation, in order
  gRaw,       \* candidates[0].content.parts[0].text of the last answered call
  gResult,    \* the text generateFromPrompt resolved with
  gError      \* the error generateFromPrompt rejected with

varsGen == <<apiKey, gPc, gModel, gAttempt, gDelay, gLog, gRaw, gResult, gError>>

\* no text: never the value of a text field
NoText == <<"none">>

(***************************************************************************)
(* What one fetch of :generateContent can deliver.                         *)
(***************************************************************************)
Responses ==
  {[kind |-> k, finishReason |-> "NONE", text |-> <<>>] :
       k \in {"network_error", "http_error", "no_candidates", "no_parts"}}
  \cup
  {[kind |-> "candidate", finishReason |-> f, text |-> t] :
       f \in {"STOP", "SAFETY"}, t \in Texts}

\* callGeminiAPI, from the moment fetch settles: the value it returns or the
\* error it throws
callGeminiAPI(resp) ==
  IF resp.kind = "network_error"
    THEN [ok |-> FALSE, error |-> "network_error", text |-> <<>>]
  ELSE IF resp.kind = "http_error"
    THEN [ok |-> FALSE, error |-> "Gemini API error", text |-> <<>>]
  ELSE IF resp.kind = "no_candidates"
    THEN [ok |-> FALSE, error |-> "No candidates returned", text |-> <<>>]
  ELSE IF resp.kind = "no_parts"
    THEN [ok |-> FALSE, error |-> "Invalid candidate structure", text |-> <<>>]
  ELSE IF resp.finishReason = "SAFETY"
    THEN [ok |-> FALSE, error |-> "Response blocked by safety filters", text |-> <<>>]
  ELSE IF resp.text = <<>> \/ Trim(resp.text) = <<>>
    THEN [ok |-> FALSE, error |-> "Empty response", text |-> <<>>]
  ELSE [ok |-> TRUE, error |-> "none", text |-> Trim(resp.text)]

\* a slip: the loop bound is off by one
HasNextAttemptOffByOne(attempt) == attempt <= maxRetries

\* generateWithModel line 132: the loop runs another attempt
HasNextAttempt(attempt) == attempt + 1 <= maxRetries

\* generateWithModel line 143: a backoff timer precedes the next attempt
BackoffBefore(attempt) == attempt < maxRetries

\* generateWithModel line 145
RECURSIVE Pow2(_)
Pow2(n) == IF n = 0 THEN 1 ELSE 2 * Pow2(n - 1)
DelayMs(attempt) == Pow2(attempt - 1) * 1000

LogCall(log, model) == Append(log, [model |-> model, outcome |-> "pending"])

LogOutcome(log, outcome) ==
  [log EXCEPT ![Len(log)] = [@ EXCEPT !.outcome = outcome]]

OutcomeOf(resp, r) ==
  IF r.ok THEN "ok"
  ELSE IF resp.kind = "candidate" /\ resp.finishReason = "SAFETY" THEN "safety"
  ELSE "error"

GenIdle ==
  /\ gPc = "idle" /\ gModel = "none" /\ gAttempt = 0 /\ gDelay = 0
  /\ gLog = <<>> /\ gRaw = NoText /\ gResult = NoText /\ gError = "none"

\* generateFromPrompt, lines 85-100: up to the first fetch
GenerateFromPrompt ==
  /\ gPc = "idle"
  /\ IF ~apiKey
       THEN /\ gPc' = "raised"
            /\ gError' = "GEMINI_API_KEY environment variable is required"
            /\ UNCHANGED <<gModel, gAttempt, gLog>>
       ELSE /\ gPc' = "calling"
            /\ gModel' = GEN_MODEL
            /\ gAttempt' = 1
            /\ gLog' = LogCall(gLog, GEN_MODEL)
            /\ UNCHANGED gError
  /\ UNCHANGED <<apiKey, gDelay, gRaw, gResult>>

\* generateFromPrompt, lines 104-117: generateWithModel threw
AfterModelFailed(err) ==
  IF gModel = GEN_MODEL
    THEN /\ gPc' = "calling"
         /\ gModel' = GEN_MODEL_FALLBACK
         /\ gAttempt' = 1
         /\ gLog' = LogCall(LogOutcome(gLog, err), GEN_MODEL_FALLBACK)
         /\ UNCHANGED gError
    ELSE /\ gPc' = "raised"
         /\ gError' = "Generation failed"
         /\ gLog' = LogOutcome(gLog, err)
         /\ UNCHANGED <<gModel, gAttempt>>

\* the fetch of the call in flight settles with resp: callGeminiAPI lines
\* 204-233, generateWithModel lines 136-152, generateFromPrompt lines 100-117
FetchSettles(resp) ==
  /\ gPc = "calling"
  /\ LET r == callGeminiAPI(resp)
         o == OutcomeOf(resp, r)
     IN  /\ gRaw' = IF resp.kind = "candidate" THEN resp.text ELSE NoText
         /\ IF r.ok
              THEN /\ gPc' = "resolved"
                   /\ gResult' = r.text
                   /\ gLog' = LogOutcome(gLog, o)
                   /\ UNCHANGED <<gModel, gAttempt, gDelay, gError>>
            ELSE IF HasNextAttempt(gAttempt)
              THEN /\ IF BackoffBefore(gAttempt)
                        THEN /\ gPc' = "backoff"
                             /\ gDelay' = DelayMs(gAttempt)
                             /\ gLog' = LogOutcome(gLog, o)
                             /\ UNCHANGED gAttempt
                        ELSE /\ gPc' = "calling"
                             /\ gAttempt' = gAttempt + 1
                             /\ gLog' = LogCall(LogOutcome(gLog, o), gModel)
                             /\ UNCHANGED gDelay
                   /\ UNCHANGED <<gModel, gResult, gError>>
            ELSE /\ AfterModelFailed(o)
                 /\ UNCHANGED <<gDelay, gResult>>
  /\ UNCHANGED apiKey

\* the backoff timer fires: generateWithModel lines 147, 132-136
BackoffElapsed ==
  /\ gPc = "backoff"
  /\ gPc' = "calling"
  /\ gAttempt' = gAttempt + 1
  /\ gDelay' = 0
  /\ gLog' = LogCall(gLog, gModel)
  /\ UNCHANGED <<apiKey, gModel, gRaw, gResult, gError>>

\* the caller has taken the outcome; the next invocation may start
GenReturn ==
  /\ gPc \in {"resolved", "raised"}
  /\ gPc' = "idle" /\ gModel' = "none" /\ gAttempt' = 0 /\ gDelay' = 0
  /\ gLog' = <<>> /\ gRaw' = NoText /\ gResult' = NoText /\ gError' = "none"
  /\ UNCHANGED apiKey

(***************************************************************************)
(* Index store (indexer.ts): one file rag_index/index.json.                *)
(***************************************************************************)
\* most chunks one buildIndex call is given
MaxChunks == 2

Undefined == "undefined"

\* the drivers the switch statements know, and one they do not
SupportedDrivers == {"json", "faiss", "chroma"}
Drivers == SupportedDrivers \cup {"unsupported_driver"}
\* the values of RAG_INDEX_DRIVER tried
EnvDrivers == {"json", "unsupported_driver"}

ChunkPool ==
  { [id |-> "doc1_chunk_0", text |-> "binary trees",
     metadata |-> [source |-> "doc1.txt", page |-> "1", unit |-> Undefined,
                   chunk_id |-> "doc1_chunk_0"]],
    [id |-> "doc2_chunk_0", text |-> "process scheduling",
     metadata |-> [source |-> "doc2.txt", page |-> Undefined, unit |-> "Unit 2",
                   chunk_id |-> "doc2_chunk_0"]] }

\* the chunk lists buildIndex is given: chunk ids are unique within a list
ChunkLists ==
  {l \in SeqsUpTo(ChunkPool, MaxChunks) :
     \A i \in 1..Len(l), j \in 1..Len(l) : i # j => l[i] # l[j]}

MetaKeys == {"source", "page", "unit", "chunk_id"}

VARIABLES
  envDriver,  \* RAG_INDEX_DRIVER
  file,       \* index.json: whether it exists and the text written so far
  wPc,        \* position of the writer (buildIndex / clearIndex caller)
  wChunks,    \* buildIndex's chunks argument
  wDriver,    \* buildIndex's driver argument
  wData,      \* the text writeFile is writing
  wOld,       \* the snapshot that was persisted when the build began
  wLast,      \* how the writer's last call ended
  rPc,        \* position of each reader
  rSaw,       \* what the reader's readFile found
  rIndex,     \* what loadIndex returned to the reader
  rOut        \* how the reader's call ended

varsIdx == <<envDriver, file, wPc, wChunks, wDriver, wData, wOld, wLast,
             rPc, rSaw, rIndex, rOut>>

Readers == {"r1"}
Queries == {"What are binary trees?"}

\* a slip: a failed call returns no vectors instead of falling back to hashEmbed
embedTextsPartial(texts, callOk) ==
  IF apiKey /\ callOk
    THEN [i \in 1..Len(texts) |-> [mode |-> "api", of |-> texts[i]]]
    ELSE <<>>

\* embedTexts: one vector per text, all from the API or all from hashEmbed
embedTexts(texts, callOk) ==
  IF ~apiKey
    THEN [i \in 1..Len(texts) |-> [mode |-> "hash", of |-> texts[i]]]
  ELSE IF callOk
    THEN [i \in 1..Len(texts) |-> [mode |-> "api", of |-> texts[i]]]
  ELSE [i \in 1..Len(texts) |-> [mode |-> "hash", of |-> texts[i]]]

\* the value undefined where a vector is expected
NoVector == [mode |-> Undefined, of |-> Undefined]

\* embeddings[i] of an array
At(arr, i) == IF i \in DOMAIN arr THEN arr[i] ELSE NoVector

\* buildIndex lines 71-74
IndexedChunks(chunks, embeddings) ==
  [i \in 1..Len(chunks) |->
     [id |-> chunks[i].id, text |-> chunks[i].text,
      metadata |-> chunks[i].metadata, embedding |-> At(embeddings, i)]]

\* buildJsonIndex lines 119-128
IndexDataOf(indexed) ==
  [chunks |-> indexed,
   metadata |-> [driver |-> "json", chunk_count |-> Len(indexed),
                 embedding_model |-> "text-embedding-004"]]

\* JSON.stringify of an object: keys whose value is undefined are left out
DropUndefined(obj) ==
  [k \in {x \in DOMAIN obj : obj[x] # Undefined} |-> obj[k]]

\* reading a property of a parsed object
Get(obj, k) == IF k \in DOMAIN obj THEN obj[k] ELSE Undefined

JsonChunk(c) ==
  IF c.embedding = NoVector
    THEN [id |-> c.id, text |-> c.text, metadata |-> DropUndefined(c.metadata)]
    ELSE [id |-> c.id, text |-> c.text, metadata |-> DropUndefined(c.metadata),
          embedding |-> c.embedding]

Tok(t, v) == [tok |-> t, val |-> v]
NoVal == [none |-> "none"]

\* JSON.stringify(indexData, null, 2), as the pieces writeFile may write apart
Stringify(d) ==
  <<Tok("open", NoVal)>>
  \o [i \in 1..Len(d.chunks) |-> Tok("chunk", JsonChunk(d.chunks[i]))]
  \o <<Tok("meta", d.metadata), Tok("close", NoVal)>>

WellFormed(text) ==
  /\ Len(text) >= 3
  /\ text[1].tok = "open"
  /\ text[Len(text)].tok = "close"
  /\ text[Len(text) - 1].tok = "meta"
  /\ \A i \in 2..(Len(text) - 2) : text[i].tok = "chunk"

\* JSON.parse: the value, for a complete text only
Parse(text) ==
  [chunks |-> [i \in 1..(Len(text) - 3) |-> text[i + 1].val],
   metadata |-> text[Len(text) - 1].val]

NoData == [chunks |-> <<>>, metadata |-> NoVal]
Returned(d) == [raised |-> FALSE, null |-> FALSE, data |-> d]
ReturnedNull == [raised |-> FALSE, null |-> TRUE, data |-> NoData]
Raised == [raised |-> TRUE, null |-> FALSE, data |-> NoData]

\* loadJsonIndex
loadJsonIndex(f) ==
  IF ~f.exists THEN ReturnedNull
  ELSE IF ~WellFormed(f.content) THEN ReturnedNull
  ELSE Returned(Parse(f.content))

\* a slip: the catch block of loadIndex rethrows
loadIndexRethrows(f) ==
  IF envDriver \in SupportedDrivers THEN loadJsonIndex(f) ELSE Raised

\* loadIndex: the switch on RAG_INDEX_DRIVER inside try/catch
loadIndex(f) ==
  IF envDriver \in SupportedDrivers
    THEN LET r == loadJsonIndex(f) IN IF r.raised THEN ReturnedNull ELSE r
    ELSE ReturnedNull

Absent == [exists |-> FALSE, content |-> <<>>]

SawOf(f) ==
  IF ~f.exists THEN "absent"
  ELSE IF WellFormed(f.content) THEN "complete" ELSE "unparseable"

NoOutcome == [op |-> "none", status |-> "none", error |-> "none", query |-> "none",
              total_chunks |-> 0]

IdxIdle ==
  /\ file = Absent
  /\ wPc = "idle" /\ wChunks = <<>> /\ wDriver = "none" /\ wData = <<>>
  /\ wOld = Absent /\ wLast = "none"
  /\ rPc = [r \in Readers |-> "idle"]
  /\ rSaw = [r \in Readers |-> "none"]
  /\ rIndex = [r \in Readers |-> ReturnedNull]
  /\ rOut = [r \in Readers |-> NoOutcome]

varsReaders == <<rPc, rSaw, rIndex, rOut>>
varsWriter == <<wPc, wChunks, wDriver, wData, wOld, wLast>>

\* buildIndex lines 56-68: up to the await of embedTexts
BuildIndex(chunks, driver) ==
  /\ wPc = "idle"
  /\ wPc' = "embedding"
  /\ wChunks' = chunks
  /\ wDriver' = driver
  /\ wOld' = file
  /\ wLast' = "none"
  /\ UNCHANGED <<wData, file, envDriver, apiKey>>
  /\ UNCHANGED varsReaders

\* buildIndex lines 68-89, buildJsonIndex lines 119-131: embedTexts has
\* resolved; the index data is serialized and writeFile is called
EmbeddingsReady(callOk) ==
  /\ wPc = "embedding"
  /\ IF wDriver \in SupportedDrivers
       THEN /\ wPc' = "opening"
            /\ wData' = Stringify(IndexDataOf(
                          IndexedChunks(wChunks, embedTexts(
                            [i \in 1..Len(wChunks) |-> wChunks[i].text], callOk))))
            /\ UNCHANGED <<wLast, wOld>>
       ELSE /\ wPc' = "idle"
            /\ wLast' = "rejected: Unsupported index driver"
            /\ wOld' = Absent
            /\ UNCHANGED wData
  /\ UNCHANGED <<wChunks, wDriver, file, envDriver, apiKey>>
  /\ UNCHANGED varsReaders

\* fs.writeFile opens index.json with flag 'w': the file is created or
\* truncated to nothing
WriteOpen ==
  /\ wPc = "opening"
  /\ wPc' = "writing"
  /\ file' = [exists |-> TRUE, content |-> <<>>]
  /\ UNCHANGED <<wChunks, wDriver, wData, wOld, wLast, envDriver, apiKey>>
  /\ UNCHANGED varsReaders

\* fs.writeFile writes the next piece of the text
WritePiece ==
  /\ wPc = "writing"
  /\ Len(file.content) < Len(wData)
  /\ file' = [file EXCEPT !.content = Append(@, wData[Len(@) + 1])]
  /\ UNCHANGED <<wPc, wChunks, wDriver, wData, wOld, wLast, envDriver, apiKey>>
  /\ UNCHANGED varsReaders

\* fs.writeFile resolves; buildJsonIndex and buildIndex return
WriteDone ==
  /\ wPc = "writing"
  /\ Len(file.content) = Len(wData)
  /\ wPc' = "idle"
  /\ wLast' = "built"
  /\ wData' = <<>>
  /\ UNCHANGED <<wChunks, wDriver, wOld, file, envDriver, apiKey>>
  /\ UNCHANGED varsReaders

\* clearIndex: how the call ends
clearOutcome(f) == IF f.exists THEN "cleared" ELSE "cleared: nothing to remove"

\* clearIndex
ClearIndex ==
  /\ wPc = "idle"
  /\ file' = Absent
  /\ wLast' = clearOutcome(file)
  /\ wChunks' = <<>>
  /\ wDriver' = "none"
  /\ wOld' = Absent
  /\ UNCHANGED <<wPc, wData, envDriver, apiKey>>
  /\ UNCHANGED varsReaders

\* loadIndex called on its own
LoadIndex(r) ==
  /\ rPc[r] \in {"idle", "done"}
  /\ rSaw' = [rSaw EXCEPT ![r] = SawOf(file)]
  /\ rIndex' = [rIndex EXCEPT ![r] = ReturnedNull]
  /\ rOut' = [rOut EXCEPT ![r] =
       [NoOutcome EXCEPT !.op = "loadIndex",
          !.status = IF loadIndex(file).raised THEN "rejected"
                     ELSE IF loadIndex(file).null THEN "resolved: null"
                     ELSE "resolved: index data",
          !.total_chunks = Len(loadIndex(file).data.chunks)]]
  /\ rPc' = [rPc EXCEPT ![r] = "done"]
  /\ UNCHANGED <<file, envDriver, apiKey>>
  /\ UNCHANGED varsWriter

\* a slip: a missing index is searched as an empty one
afterLoadSilent(idx, q) ==
  IF idx.raised
    THEN [NoOutcome EXCEPT !.op = "retrieve", !.status = "rejected",
                           !.error = "load failed", !.query = q]
    ELSE [NoOutcome EXCEPT !.op = "retrieve", !.status = "embedding", !.query = q]

\* retrieve lines 62-65: what follows loadIndex
afterLoad(idx, q) ==
  IF idx.raised
    THEN [NoOutcome EXCEPT !.op = "retrieve", !.status = "rejected",
                           !.error = "load failed", !.query = q]
  ELSE IF idx.null
    THEN [NoOutcome EXCEPT !.op = "retrieve", !.status = "rejected",
                           !.error = "No RAG index found", !.query = q]
  ELSE [NoOutcome EXCEPT !.op = "retrieve", !.status = "embedding", !.query = q]

\* retrieve lines 53-69: up to the await of embedQuery
RetrieveLoad(r, q) ==
  /\ rPc[r] \in {"idle", "done"}
  /\ rSaw' = [rSaw EXCEPT ![r] = SawOf(file)]
  /\ rIndex' = [rIndex EXCEPT ![r] =
       IF loadIndex(file).raised THEN ReturnedNull ELSE loadIndex(file)]
  /\ rOut' = [rOut EXCEPT ![r] = afterLoad(loadIndex(file), q)]
  /\ rPc' = [rPc EXCEPT ![r] =
       IF afterLoad(loadIndex(file), q).status = "embedding" THEN "embedding" ELSE "done"]
  /\ UNCHANGED <<file, envDriver, apiKey>>
  /\ UNCHANGED varsWriter

\* retrieve lines 69-121: the query vector is there; the response is built
\* from the index data loaded before
RetrieveRespond(r) ==
  /\ rPc[r] = "embedding"
  /\ rOut' = [rOut EXCEPT ![r] =
       [@ EXCEPT !.status = "resolved",
                 !.total_chunks = Len(rIndex[r].data.chunks)]]
  /\ rPc' = [rPc EXCEPT ![r] = "done"]
  /\ rIndex' = [rIndex EXCEPT ![r] = ReturnedNull]
  /\ UNCHANGED <<rSaw, file, envDriver, apiKey>>
  /\ UNCHANGED varsWriter

(***************************************************************************)
(* POST /api/rag/ask (route.ts).  Scores are in hundredths.                *)
(***************************************************************************)
\* RAG_MIN_SIM, 0.25
RAG_MIN_SIM == 25
\* RAG_TOP_K
RAG_TOP_K == 5

NOT_FOUND_ANSWER == "Not found in VTU context."

VARIABLES
  enableRag,  \* ENABLE_RAG
  pPc,        \* position of the POST handler
  pBody,      \* what request.json() gave
  pRetr,      \* what retrieve resolved with
  pRagError,  \* the error handleRagPipeline threw, caught by POST
  pHeur,      \* how the call of getAiResponse ended
  pResp       \* the response POST resolved with

varsPost == <<enableRag, pPc, pBody, pRetr, pRagError, pHeur, pResp>>

\* request bodies: the body itself, its question and its useRag
Bodies ==
  {[json |-> j, question |-> "none", useRag |-> Undefined, filters |-> [unit |-> Undefined]] :
       j \in {"invalid json", "null"}}
  \cup
  {[json |-> "object", question |-> q, useRag |-> u, filters |-> [unit |-> Undefined]] :
       q \in {Undefined, "number", "empty", "blank", "too long", "valid"},
       u \in {Undefined, "true", "false"}}
  \cup
  {[json |-> "object", question |-> "valid", useRag |-> "true",
    filters |-> [unit |-> "Unit 2"]]}

Scores == {10, 25, 40}

NoRetrieval == [status |-> "none", confidence |-> FALSE, results |-> <<>>,
                total_chunks |-> 0]
NoResponse == [status |-> 0, answer |-> Undefined, citations |-> <<>>,
               sources |-> <<>>, error |-> "none", method |-> "none"]

Response(status, answer, citations, sources, error, method) ==
  [status |-> status, answer |-> answer, citations |-> citations,
   sources |-> sources, error |-> error, method |-> method]

\* validateRequest
validateRequest(body) ==
  IF body.question \in {Undefined, "empty"}
    THEN "Question is required and must be a string"
  ELSE IF body.question = "number"
    THEN "Question is required and must be a string"
  ELSE IF body.question = "blank" THEN "Question cannot be empty"
  ELSE IF body.question = "too long" THEN "Question is too long (max 2000 characters)"
  ELSE "none"

\* POST lines 80-88: request.json() or the logging of the question throws
ParsingThrows(body) ==
  \/ body.json \in {"invalid json", "null"}
  \/ body.question = "number"

\* POST lines 118-126: the outer catch
OuterCatchResponse ==
  Response(500, "An error occurred while processing your question. Please try again.",
           <<>>, <<>>, "error message", "none")

PostIdle ==
  /\ pPc = "idle" /\ pBody = [json |-> "none", question |-> "none", useRag |-> Undefined,
              filters |-> [unit |-> Undefined]]
  /\ pRetr = NoRetrieval /\ pRagError = "none" /\ pHeur = "none" /\ pResp = NoResponse

\* POST lines 75-116, handleRagPipeline lines 152-157, handleHeuristicFallback
\* lines 253-265: up to the first await after request.json()
Post(body) ==
  /\ pPc = "idle"
  /\ pBody' = body
  /\ IF ParsingThrows(body)
       THEN pPc' = "done" /\ pResp' = OuterCatchResponse
     ELSE IF validateRequest(body) # "none"
       THEN /\ pPc' = "done"
            /\ pResp' = Response(400, validateRequest(body), <<>>, <<>>,
                                 validateRequest(body), "none")
     ELSE IF body.useRag = "true" \/ enableRag
       THEN pPc' = "retrieving" /\ UNCHANGED pResp
     ELSE pPc' = "heuristic" /\ UNCHANGED pResp
  /\ UNCHANGED <<enableRag, pRetr, pRagError, pHeur>>

\* retrieve lines 80-91: the top k of the scored chunks and the confidence;
\* scores[i] is the score of chunk i, the list being in descending order
RECURSIVE Sum(_)
Sum(s) == IF s = <<>> THEN 0 ELSE Head(s) + Sum(Tail(s))

Confidence(top) ==
  IF Len(top) > 0 THEN Sum([i \in 1..Len(top) |-> top[i].score]) >= RAG_MIN_SIM * Len(top)
  ELSE 0 >= RAG_MIN_SIM

TopResults(chunks, scores, k) ==
  [i \in 1..(IF Len(chunks) < k THEN Len(chunks) ELSE k) |->
     [id |-> chunks[i].id, score |-> scores[i], metadata |-> chunks[i].metadata,
      text |-> chunks[i].text]]

Descending(scores) == \A i \in 1..(Len(scores) - 1) : scores[i] >= scores[i + 1]

\* a slip: the retrieved chunks are reported although nothing was answered
NotFoundResponseWithSources(retr) ==
  Response(200, NOT_FOUND_ANSWER, <<>>,
           [i \in 1..Len(retr.results) |-> retr.results[i].metadata], "none", "rag")

\* a slip: an unconfident retrieval is answered by the heuristic system
NotFoundResponseFromHeuristic(retr) ==
  Response(200, "heuristic answer", <<>>, <<>>, "none", "heuristic_fallback")

\* handleRagPipeline lines 159-173
NotFoundResponse(retr) ==
  Response(200, NOT_FOUND_ANSWER, <<>>, <<>>, "none", "rag")

\* a slip: POST answers a failed pipeline itself
AfterRagErrorNoFallback(err) ==
  /\ pPc' = "done"
  /\ pRagError' = err
  /\ pResp' = OuterCatchResponse

\* POST lines 112-115: handleRagPipeline threw
AfterRagError(err) ==
  /\ pPc' = "heuristic"
  /\ pRagError' = err
  /\ UNCHANGED pResp

\* handleRagPipeline lines 157-192, retrieve: retrieve settles; on a
\* confident retrieval the prompt is built and generateFromPrompt is called
PostRetrieved(scoring) ==
  /\ pPc = "retrieving"
  /\ LET loaded == afterLoad(loadIndex(file), "valid")
         chunks == loadIndex(file).data.chunks
     IN  IF loaded.status = "rejected"
           THEN /\ AfterRagError(loaded.error)
                /\ UNCHANGED <<pRetr, varsGen>>
         ELSE IF scoring = "Vectors must have same length" /\ Len(chunks) > 0
           THEN /\ AfterRagError(scoring)
                /\ UNCHANGED <<pRetr, varsGen>>
         ELSE \E scores \in SeqsUpTo(Scores, Len(chunks)) :
                /\ Len(scores) = Len(chunks)
                /\ Descending(scores)
                /\ LET top == TopResults(chunks, scores, RAG_TOP_K)
                       retr == [status |-> "resolved", confidence |-> Confidence(top),
                                results |-> top, total_chunks |-> Len(chunks)]
                   IN  /\ pRetr' = retr
                       /\ IF ~retr.confidence
                            THEN /\ pPc' = "done"
                                 /\ pResp' = NotFoundResponse(retr)
                                 /\ UNCHANGED <<pRagError, varsGen>>
                          ELSE IF ~apiKey
                            \* generateFromPrompt lines 89-91 throws at once
                            THEN /\ AfterRagError("GEMINI_API_KEY environment variable is required")
                                 /\ UNCHANGED varsGen
                            ELSE /\ GenerateFromPrompt
                                 /\ pPc' = "generating"
                                 /\ UNCHANGED <<pRagError, pResp>>
  /\ UNCHANGED <<enableRag, pBody, pHeur>>

\* what JSON.parse makes of the generated text
Documents ==
  {[kind |-> k, answer |-> "none", citations |-> "none"] :
       k \in {"syntax error", "null", "number", "array"}}
  \cup
  {[kind |-> "object", answer |-> a, citations |-> c] :
       a \in {"missing", "empty", "text"},
       c \in {"missing", "array", "array with null", "not an array"}}

\* generateStructuredResponse lines 245-277, for expectedKeys answer,
\* citations, exam_format: the object it resolves with
generateStructuredResponse(doc) ==
  IF doc.kind \in {"syntax error", "null", "number"}
    THEN [answer |-> "raw response", citations |-> "array"]
  ELSE IF doc.kind = "array"
    THEN [answer |-> "raw response", citations |-> "array"]
  ELSE [answer |-> IF doc.answer = "missing" THEN "raw response" ELSE doc.answer,
        citations |-> IF doc.citations = "missing" THEN "array" ELSE doc.citations]

\* processGeminiResponse: the citations.map throws on what is no array and
\* on a null citation
processGeminiThrows(obj) == obj.citations \in {"array with null", "not an array"}

\* processGeminiResponse: answer, citations (here at most one) and sources
processGeminiResponse(obj, results) ==
  [answer |-> IF obj.answer = "empty" THEN "No answer generated" ELSE obj.answer,
   citations |-> IF Len(results) > 0
                   THEN <<[source |-> Get(results[1].metadata, "source"),
                           page |-> Get(results[1].metadata, "page"),
                           chunk_id |-> Get(results[1].metadata, "chunk_id")]>>
                   ELSE <<>>,
   sources |-> [i \in 1..Len(results) |->
                  [source |-> Get(results[i].metadata, "source"),
                   page |-> Get(results[i].metadata, "page"),
                   unit |-> Get(results[i].metadata, "unit"),
                   chunk_id |-> Get(results[i].metadata, "chunk_id"),
                   score |-> results[i].score]]]

\* handleRagPipeline lines 189-209: generateFromPrompt has settled
PostGenerated(doc) ==
  /\ pPc = "generating"
  /\ gPc \in {"resolved", "raised"}
  /\ IF gPc = "raised"
       THEN AfterRagError(gError)
     ELSE IF processGeminiThrows(generateStructuredResponse(doc))
       THEN AfterRagError("TypeError")
     ELSE LET p == processGeminiResponse(generateStructuredResponse(doc), pRetr.results)
          IN  /\ pPc' = "done"
              /\ pResp' = Response(200, p.answer, p.citations, p.sources, "none", "rag")
              /\ UNCHANGED pRagError
  /\ GenReturn
  /\ UNCHANGED <<enableRag, pBody, pRetr, pHeur>>

\* what getAiResponse does
HeuristicOutcomes == {"success", "no success", "throws"}

\* handleHeuristicFallback lines 267-300: the response, by what getAiResponse did
heuristicResponse(outcome, ragError) ==
  IF outcome = "success"
    THEN Response(200, "heuristic answer", <<>>, <<>>, "none", "heuristic_fallback")
    ELSE Response(500,
           "Sorry, I encountered an error while processing your question. Please try again later.",
           <<>>, <<>>, "RAG failed. Fallback failed.", "heuristic_fallback")

\* handleHeuristicFallback: getAiResponse has settled
PostHeuristicDone(outcome) ==
  /\ pPc = "heuristic"
  /\ pHeur' = outcome
  /\ pResp' = heuristicResponse(outcome, pRagError)
  /\ pPc' = IF heuristicResponse(outcome, pRagError).error = "exception escaped"
              THEN "threw" ELSE "done"
  /\ UNCHANGED <<enableRag, pBody, pRetr, pRagError>>

\* the caller has the response; the next request may come
PostReturn ==
  /\ pPc = "done"
  /\ pPc' = "idle" /\ pBody' = [json |-> "none", question |-> "none", useRag |-> Undefined,
              filters |-> [unit |-> Undefined]]
  /\ pRetr' = NoRetrieval /\ pRagError' = "none" /\ pHeur' = "none" /\ pResp' = NoResponse
  /\ UNCHANGED enableRag

(***************************************************************************)
(* embedTexts (embeddings.ts): the texts go out in batches of batchSize;   *)
(* a batch is one Promise.all over generateSingleEmbedding.                *)
(***************************************************************************)
MaxTexts == 11

batchSize == 10

VARIABLES
  ePc,          \* "idle", "batch" (a Promise.all is pending), "delay", "resolved"
  eTexts,       \* the argument texts
  eI,           \* the loop variable i
  eEmbeddings,  \* the local array embeddings
  eFailed,      \* position in texts of the request that failed, 0 if none
  eOut          \* the vectors the call resolved with

varsEmbed == <<ePc, eTexts, eI, eEmbeddings, eFailed, eOut>>

TextLists == SeqsUpTo({"binary trees", "process scheduling"}, MaxTexts)

hashEmbed(text) == [mode |-> "hash", of |-> text]

EmbedCatchKeepsEmbedded(texts, embeddings) ==
  [i \in 1..Len(texts) |->
     IF i <= Len(embeddings) THEN embeddings[i] ELSE hashEmbed(texts[i])]

\* the catch block: texts.map(text => hashEmbed(text))
EmbedCatch(texts, embeddings) == [i \in 1..Len(texts) |-> hashEmbed(texts[i])]

\* embedTexts(texts) up to its first await
EmbedTexts(texts) ==
  /\ ePc = "idle"
  /\ eTexts' = texts /\ eI' = 0 /\ eEmbeddings' = <<>> /\ eFailed' = 0
  /\ IF ~apiKey
       THEN ePc' = "resolved" /\ eOut' = [i \in 1..Len(texts) |-> hashEmbed(texts[i])]
       ELSE IF Len(texts) = 0
              THEN ePc' = "resolved" /\ eOut' = <<>>
              ELSE ePc' = "batch" /\ eOut' = <<>>
  /\ UNCHANGED apiKey

\* the pending Promise.all settles; failed is the position in the batch of
\* the first generateSingleEmbedding to reject, 0 when all of them succeed
BatchSettles(failed) ==
  LET last == IF eI + batchSize < Len(eTexts) THEN eI + batchSize ELSE Len(eTexts)
      batch == SubSeq(eTexts, eI + 1, last)
      batchEmbeddings == [i \in 1..Len(batch) |-> [mode |-> "api", of |-> batch[i]]]
  IN  /\ ePc = "batch"
      /\ failed \in 0..Len(batch)
      /\ IF failed # 0
           THEN /\ ePc' = "resolved"
                /\ eFailed' = eI + failed
                /\ eOut' = EmbedCatch(eTexts, eEmbeddings)
                /\ UNCHANGED <<eI, eEmbeddings>>
           ELSE /\ eEmbeddings' = eEmbeddings \o batchEmbeddings
                /\ UNCHANGED eFailed
                /\ IF eI + batchSize < Len(eTexts)
                     THEN ePc' = "delay" /\ UNCHANGED <<eI, eOut>>
                     ELSE /\ ePc' = "resolved" /\ eI' = eI + batchSize
                          /\ eOut' = eEmbeddings \o batchEmbeddings
      /\ UNCHANGED <<apiKey, eTexts>>

\* the 100 ms pause between two batches is over: i += batchSize
DelayElapsed ==
  /\ ePc = "delay"
  /\ ePc' = "batch" /\ eI' = eI + batchSize
  /\ UNCHANGED <<apiKey, eTexts, eEmbeddings, eFailed, eOut>>

(***************************************************************************)
(* Library functions called on their own: libCall is the call made (the    *)
(* function and its arguments), libRet what it returned.                   *)
(***************************************************************************)
VARIABLES libCall, libRet

varsLib == <<libCall, libRet>>

NoCall == [fn |-> "none"]

(***************************************************************************)
(* retriever.ts: ranking.  A string is a sequence of characters, "A" an    *)
(* upper-case letter, "a" its lower-case form, "b" any other character;    *)
(* NoText is an absent (undefined) string.  Scores and thresholds are in   *)
(* hundredths.                                                             *)
(***************************************************************************)
MaxIndexed == 3

\* the array similarities before it is sorted, one entry per chunk of the
\* index, each with its score and its metadata.source and metadata.unit
Similarities ==
  LET metadata == { [source |-> <<"A", "b">>, unit |-> <<"a">>],
                    [source |-> <<"b">>, unit |-> <<"A">>],
                    [source |-> <<"b">>, unit |-> NoText] }
      scored == {[score |-> sc, metadata |-> m] : sc \in {10, 40}, m \in metadata}
      lists == SeqsUpTo(scored, MaxIndexed)
  IN  {[i \in 1..Len(l) |-> [index |-> i, score |-> l[i].score, metadata |-> l[i].metadata]] :
         l \in lists}

\* Number(process.env.X) || dflt, env being unset or a number
NumberOr(env, dflt) == IF env.set /\ env.value # 0 THEN env.value ELSE dflt

Unsorted(sims) == sims

\* similarities.sort((a, b) => b.score - a.score): stable, descending
SortByScore(sims) ==
  LET n == Len(sims)
      before(i) == {j \in 1..n : \/ sims[j].score > sims[i].score
                                 \/ sims[j].score = sims[i].score /\ j < i}
  IN  [p \in 1..n |-> sims[CHOOSE i \in 1..n : Cardinality(before(i)) = p - 1]]

\* arr.slice(0, k)
Slice(arr, k) ==
  LET n == Len(arr)
      end == IF k < 0 THEN (IF n + k > 0 THEN n + k ELSE 0)
             ELSE IF k < n THEN k ELSE n
  IN  SubSeq(arr, 1, end)

\* averageScore >= RAG_MIN_SIM, averageScore being 0 for no results
ConfidenceAt(results, minSim) ==
  IF Len(results) > 0
    THEN Sum([i \in 1..Len(results) |-> results[i].score]) >= minSim * Len(results)
    ELSE 0 >= minSim

\* retrieve(question, k) on a loaded index whose chunks score as sims
retrieve(sims, k, minSim) ==
  LET topResults == Slice(SortByScore(sims), k)
  IN  [results |-> topResults,
       confidence |-> ConfidenceAt(topResults, minSim),
       total_chunks |-> Len(sims), top_k |-> k, min_similarity |-> minSim]

Retrieve(sims, k, env) ==
  /\ libCall = NoCall
  /\ libCall' = [fn |-> "retrieve", similarities |-> sims, k |-> k, RAG_MIN_SIM |-> env]
  /\ libRet' = retrieve(sims, k, NumberOr(env, RAG_MIN_SIM))

\* str.toLowerCase()
ToLowerCase(str) == [i \in 1..Len(str) |-> IF str[i] = "A" THEN "a" ELSE str[i]]

\* str.includes(sub)
Includes(str, sub) ==
  \E i \in 0..(Len(str) - Len(sub)) : SubSeq(str, i + 1, i + Len(sub)) = sub

\* the filters argument: source and unit are strings or absent, minScore a
\* number or absent
Filters ==
  [source : {NoText, <<"a">>}, unit : {NoText, <<>>, <<"a">>},
   minScore : {[set |-> FALSE, value |-> 0], [set |-> TRUE, value |-> 40]}]

\* a slip: the filters are applied to the whole ranked index
retrieveFilteredWholeIndex(sims, filters, k, minSim) ==
  LET allResults == retrieve(sims, Len(sims), minSim)
      truthy(str) == str # NoText /\ str # <<>>
      keep(r) ==
        /\ truthy(filters.source) =>
             Includes(ToLowerCase(r.metadata.source), ToLowerCase(filters.source))
        /\ truthy(filters.unit) =>
             /\ r.metadata.unit # NoText
             /\ ToLowerCase(r.metadata.unit) = ToLowerCase(filters.unit)
        /\ filters.minScore.set => r.score >= filters.minScore.value
      filteredResults == Slice(SelectSeq(allResults.results, keep), k)
  IN  [allResults EXCEPT !.results = filteredResults,
                         !.confidence = ConfidenceAt(filteredResults, minSim)]

\* retrieveFiltered(question, filters, k)
retrieveFiltered(sims, filters, k, minSim) ==
  LET allResults == retrieve(sims, k * 2, minSim)
      truthy(str) == str # NoText /\ str # <<>>
      bySource(r) ==
        Includes(ToLowerCase(r.metadata.source), ToLowerCase(filters.source))
      byUnit(r) ==
        /\ r.metadata.unit # NoText
        /\ ToLowerCase(r.metadata.unit) = ToLowerCase(filters.unit)
      byScore(r) == r.score >= filters.minScore.value
      f1 == IF truthy(filters.source) THEN SelectSeq(allResults.results, bySource)
            ELSE allResults.results
      f2 == IF truthy(filters.unit) THEN SelectSeq(f1, byUnit) ELSE f1
      f3 == IF filters.minScore.set THEN SelectSeq(f2, byScore) ELSE f2
      filteredResults == Slice(f3, k)
  IN  [allResults EXCEPT !.results = filteredResults,
                         !.confidence = ConfidenceAt(filteredResults, minSim)]

RetrieveFiltered(sims, filters, k) ==
  /\ libCall = NoCall
  /\ libCall' = [fn |-> "retrieveFiltered", similarities |-> sims, filters |-> filters,
                 k |-> k]
  /\ libRet' = retrieveFiltered(sims, filters, k, RAG_MIN_SIM)

(***************************************************************************)
(* prompt_builder.ts: the context section.  A ranked result is given by    *)
(* the length in characters of its context block (source header, metadata  *)
(* line, text and two line feeds).                                         *)
(***************************************************************************)
\* the loop of buildContextSection from chunk i on (i counts from 1)
RECURSIVE ContextLoop(_, _, _, _)
ContextLoop(lengths, i, maxTokens, acc) ==
  IF i > Len(lengths) THEN acc
  ELSE LET chunkTokens == (lengths[i] + 3) \div 4
       IN  IF acc.estimatedTokens + chunkTokens > maxTokens /\ i > 1
             THEN acc
             ELSE ContextLoop(lengths, i + 1, maxTokens,
                    [sources |-> Append(acc.sources, i),
                     estimatedTokens |-> acc.estimatedTokens + chunkTokens])

\* a slip: the last-ranked block is kept after the budget stopped the loop
buildContextSectionKeepsLast(lengths, maxTokens) ==
  LET r == ContextLoop(lengths, 1, maxTokens, [sources |-> <<>>, estimatedTokens |-> 50])
  IN  IF Len(r.sources) < Len(lengths)
        THEN [r EXCEPT !.sources = Append(@, Len(lengths))]
        ELSE r

\* buildContextSection(chunks, maxTokens, ...): sources holds the positions
\* of the chunks that went into the context
buildContextSection(lengths, maxTokens) ==
  ContextLoop(lengths, 1, maxTokens, [sources |-> <<>>, estimatedTokens |-> 50])

BuildContextSection(lengths, maxTokens) ==
  /\ libCall = NoCall
  /\ libCall' = [fn |-> "buildContextSection", lengths |-> lengths,
                 maxTokens |-> maxTokens]
  /\ libRet' = buildContextSection(lengths, maxTokens)

(***************************************************************************)
(* ingest script: chunkText.  The text is given as its sentences (what     *)
(* text.split(/[.!?]+/) leaves after the empty ones are filtered out), a   *)
(* sentence as its words; word w of sentence s is <<s, w>>, so that every  *)
(* word of the text is told apart.  A chunk is the sequence of its words.  *)
(***************************************************************************)
MaxSentences == 4

\* the texts with up to MaxSentences sentences of one to three words
SentenceLists ==
  {[s \in 1..Len(l) |-> [w \in 1..l[s] |-> <<s, w>>]] :
     l \in SeqsUpTo(1..3, MaxSentences)}

\* getOverlapText(text, overlapWords); words.slice(-0) is words.slice(0)
getOverlapText(words, overlapWords) ==
  IF Len(words) <= overlapWords THEN words
  ELSE IF overlapWords = 0 THEN words
  ELSE SubSeq(words, Len(words) - overlapWords + 1, Len(words))

\* the for loop of chunkText from sentence i on; a chunk is not empty, so
\* currentChunk.length > 0 is currentChunk # <<>>
RECURSIVE ChunkLoop(_, _, _, _, _, _)
ChunkLoop(sentences, i, chunkSizeWords, overlapWords, cur, chunks) ==
  IF i > Len(sentences)
    THEN IF cur.currentChunk # <<>> THEN Append(chunks, cur.currentChunk) ELSE chunks
  ELSE LET sentence == sentences[i]
           sentenceWords == Len(sentence)
       IN  IF cur.currentWordCount + sentenceWords > chunkSizeWords
              /\ cur.currentChunk # <<>>
             THEN LET overlapText == getOverlapText(cur.currentChunk, overlapWords)
                  IN  ChunkLoop(sentences, i + 1, chunkSizeWords, overlapWords,
                        [currentChunk |-> overlapText \o sentence,
                         currentWordCount |-> Len(overlapText \o sentence)],
                        Append(chunks, cur.currentChunk))
             ELSE ChunkLoop(sentences, i + 1, chunkSizeWords, overlapWords,
                    [currentChunk |-> cur.currentChunk \o sentence,
                     currentWordCount |-> cur.currentWordCount + sentenceWords],
                    chunks)

\* chunkText(text, file, chunkSizeWords, overlapWords): the chunks' words
chunkText(sentences, chunkSizeWords, overlapWords) ==
  ChunkLoop(sentences, 1, chunkSizeWords, overlapWords,
            [currentChunk |-> <<>>, currentWordCount |-> 0], <<>>)

ChunkText(sentences, chunkSizeWords, overlapWords) ==
  /\ libCall = NoCall
  /\ libCall' = [fn |-> "chunkText", sentences |-> sentences,
                 chunkSizeWords |-> chunkSizeWords, overlapWords |-> overlapWords]
  /\ libRet' = [chunks |-> chunkText(sentences, chunkSizeWords, overlapWords)]

(***************************************************************************)
(* retriever: expandQuery.  A string is the sequence of its characters;    *)
(* the upper-case letters that occur are written "A".                      *)
(***************************************************************************)
MaxQueryWords == 2

\* the queries: up to MaxQueryWords of these words and phrases, joined by
\* single spaces -- tree, heAp, networks, data structure, os
QueryStrings ==
  LET parts == {<<"t", "r", "e", "e">>,
                <<"h", "e", "A", "p">>,
                <<"n", "e", "t", "w", "o", "r", "k", "s">>,
                <<"d", "a", "t", "a", " ", "s", "t", "r", "u", "c", "t", "u", "r", "e">>,
                <<"o", "s">>}
      RECURSIVE Join(_)
      Join(ws) == IF Len(ws) = 0 THEN <<>>
                  ELSE IF Len(ws) = 1 THEN ws[1]
                  ELSE ws[1] \o <<" ">> \o Join(Tail(ws))
  IN  {Join(ws) : ws \in SeqsUpTo(parts, MaxQueryWords)}

\* synonymMap, in the order Object.entries walks it
synonymMap == <<
  [term |-> \* algorithm
            <<"a", "l", "g", "o", "r", "i", "t", "h", "m">>,
   synonyms |-> <<  \* algo, procedure, method
     <<"a", "l", "g", "o">>,
     <<"p", "r", "o", "c", "e", "d", "u", "r", "e">>,
     <<"m", "e", "t", "h", "o", "d">> >>],
  [term |-> \* data structure
            <<"d", "a", "t", "a", " ", "s", "t", "r", "u", "c", "t", "u", "r", "e">>,
   synonyms |-> <<  \* ds, data structures
     <<"d", "s">>,
     <<"d", "a", "t", "a", " ", "s", "t", "r", "u", "c", "t", "u", "r", "e", "s">> >>],
  [term |-> \* operating system
            <<"o", "p", "e", "r", "a", "t", "i", "n", "g", " ", "s", "y", "s", "t", "e", "m">>,
   synonyms |-> <<  \* os, operating systems
     <<"o", "s">>,
     <<"o", "p", "e", "r", "a", "t", "i", "n", "g", " ", "s", "y", "s", "t", "e", "m", "s">> >>],
  [term |-> \* database
            <<"d", "a", "t", "a", "b", "a", "s", "e">>,
   synonyms |-> <<  \* db, dbms, database management
     <<"d", "b">>,
     <<"d", "b", "m", "s">>,
     <<"d", "a", "t", "a", "b", "a", "s", "e", " ", "m", "a", "n", "a", "g", "e", "m", "e", "n", "t">> >>],
  [term |-> \* network
            <<"n", "e", "t", "w", "o", "r", "k">>,
   synonyms |-> <<  \* networking, computer network
     <<"n", "e", "t", "w", "o", "r", "k", "i", "n", "g">>,
     <<"c", "o", "m", "p", "u", "t", "e", "r", " ", "n", "e", "t", "w", "o", "r", "k">> >>],
  [term |-> \* tree
            <<"t", "r", "e", "e">>,
   synonyms |-> <<  \* binary tree, search tree
     <<"b", "i", "n", "a", "r", "y", " ", "t", "r", "e", "e">>,
     <<"s", "e", "a", "r", "c", "h", " ", "t", "r", "e", "e">> >>],
  [term |-> \* heap
            <<"h", "e", "a", "p">>,
   synonyms |-> <<  \* priority queue, heap sort
     <<"p", "r", "i", "o", "r", "i", "t", "y", " ", "q", "u", "e", "u", "e">>,
     <<"h", "e", "a", "p", " ", "s", "o", "r", "t">> >>],
  [term |-> \* process
            <<"p", "r", "o", "c", "e", "s", "s">>,
   synonyms |-> <<  \* threading, multithreading, concurrency
     <<"t", "h", "r", "e", "a", "d", "i", "n", "g">>,
     <<"m", "u", "l", "t", "i", "t", "h", "r", "e", "a", "d", "i", "n", "g">>,
     <<"c", "o", "n", "c", "u", "r", "r", "e", "n", "c", "y">> >>] >>

\* str.replace(new RegExp(term, 'gi'), syn) from character i on: every
\* match of term, whatever its case, is replaced, left to right
RECURSIVE ReplaceFrom(_, _, _, _)
ReplaceFrom(str, i, term, syn) ==
  IF i > Len(str) THEN <<>>
  ELSE IF /\ i + Len(term) - 1 <= Len(str)
          /\ ToLowerCase(SubSeq(str, i, i + Len(term) - 1)) = term
    THEN syn \o ReplaceFrom(str, i + Len(term), term, syn)
    ELSE <<str[i]>> \o ReplaceFrom(str, i + 1, term, syn)

\* Array.from(new Set(arr)): the first occurrence of every member, in order
RECURSIVE Unique(_)
Unique(arr) ==
  IF arr = <<>> THEN <<>>
  ELSE LET seen == Unique(SubSeq(arr, 1, Len(arr) - 1))
           last == arr[Len(arr)]
       IN  IF \E j \in 1..Len(seen) : seen[j] = last THEN seen
           ELSE Append(seen, last)

\* the for loop of expandQuery from entry t of synonymMap on
RECURSIVE ExpansionLoop(_, _, _)
ExpansionLoop(query, t, expansions) ==
  IF t > Len(synonymMap) THEN expansions
  ELSE LET term == synonymMap[t].term
           synonyms == synonymMap[t].synonyms
       IN  IF Includes(ToLowerCase(query), term)
             THEN ExpansionLoop(query, t + 1,
                    expansions \o [n \in 1..Len(synonyms) |->
                                     ReplaceFrom(query, 1, term, synonyms[n])])
             ELSE ExpansionLoop(query, t + 1, expansions)

\* a slip: the original query is left out once a term matched
expandQueryReplacedOnly(query) ==
  LET expansions == Unique(ExpansionLoop(query, 1, <<query>>))
  IN  IF Len(expansions) > 1 THEN Tail(expansions) ELSE expansions

\* expandQuery(query)
expandQuery(query) == Unique(ExpansionLoop(query, 1, <<query>>))

ExpandQuery(query) ==
  /\ libCall = NoCall
  /\ libCall' = [fn |-> "expandQuery", query |-> query]
  /\ libRet' = [expansions |-> expandQuery(query)]

(***************************************************************************)
(* gemini_client.ts: generateStructuredResponse with any expectedKeys.     *)
(* What generateFromPrompt did is given by kind: "raised", or what         *)
(* JSON.parse makes of the text it returned ("syntax error", "null",       *)
(* "number", "array", "object"), keys being the keys of a parsed object.   *)
(***************************************************************************)
\* the object generateStructuredResponse(prompt, expectedKeys) resolves
\* with, by its kind and its keys
StructuredResult(generated, expectedKeys) ==
  LET wrapped == [raised |-> FALSE, kind |-> "object",
                  keys |-> {"answer", "citations", "exam_format", "_parsing_error"}]
  IN  IF generated.kind = "raised"
        THEN [raised |-> TRUE, kind |-> "none", keys |-> {}]
      ELSE IF generated.kind = "syntax error"
        THEN wrapped
      \* key in parsed throws a TypeError on what is no object
      ELSE IF generated.kind \in {"null", "number"}
        THEN IF expectedKeys # {} THEN wrapped
             ELSE [raised |-> FALSE, kind |-> generated.kind, keys |-> {}]
      \* an array or an object: the missing keys are set to a default or null
      ELSE [raised |-> FALSE, kind |-> generated.kind,
            keys |-> generated.keys \cup expectedKeys]

GenerateStructuredResponse(generated, expectedKeys) ==
  /\ libCall = NoCall
  /\ libCall' = [fn |-> "generateStructuredResponse", generated |-> generated,
                 expectedKeys |-> expectedKeys]
  /\ libRet' = StructuredResult(generated, expectedKeys)

(***************************************************************************)
(* ingest script: ingestDocuments.  A scan gives, for each place a file    *)
(* may be found, whether it is absent, unreadable (extractText throws) or  *)
(* read, and then the sentences of its text.  Chunking is done with chunkSize 2, overlap 1.   *)
(***************************************************************************)
\* where files are looked for: data/sample_pdfs first, then
\* data/syllabus_resources, each directory in readdir order
Places ==
  << [dir |-> "sample_pdfs", filename |-> "doc1.txt"],
     [dir |-> "syllabus_resources", filename |-> "doc1.txt"],
     [dir |-> "syllabus_resources", filename |-> "doc2.txt"] >>

Scans ==
  [1..Len(Places) ->
     {[found |-> f, sentences |-> <<>>] : f \in {"absent", "unreadable"}}
     \cup
     {[found |-> "read", sentences |-> l] :
        l \in {x \in SentenceLists : Len(x) <= 2 /\ \A i \in 1..Len(x) : Len(x[i]) = 2}}]

\* createChunk(text, file, index); the text is named after the chunk
createChunk(filename, index) ==
  LET name == IF filename = "doc1.txt"
                THEN <<"doc1.txt_chunk_0", "doc1.txt_chunk_1">>
                ELSE <<"doc2.txt_chunk_0", "doc2.txt_chunk_1">>
      chunk_id == IF filename = "doc1.txt"
                    THEN <<"doc1.txt_0", "doc1.txt_1">>
                    ELSE <<"doc2.txt_0", "doc2.txt_1">>
  IN  [id |-> name[index + 1], text |-> name[index + 1],
       metadata |-> [source |-> filename, page |-> Undefined, unit |-> Undefined,
                     chunk_id |-> chunk_id[index + 1]]]

\* the for loop over files, lines 98-112: allChunks from place i on
RECURSIVE AllChunks(_, _)
AllChunks(scan, i) ==
  IF i > Len(Places) THEN <<>>
  ELSE IF scan[i].found # "read" THEN AllChunks(scan, i + 1)
  ELSE LET chunks == chunkText(scan[i].sentences, 2, 1)
       IN  [c \in 1..Len(chunks) |-> createChunk(Places[i].filename, c - 1)]
           \o AllChunks(scan, i + 1)

\* a slip: the index is built although no chunk was created
IngestDocumentsAlwaysBuilds(scan) ==
  /\ wLast = "none"
  /\ BuildIndex(AllChunks(scan, 1), envDriver)

\* ingestDocuments, up to the await inside buildIndex; one run per process
IngestDocuments(scan) ==
  /\ wPc = "idle" /\ wLast = "none"
  /\ IF \A i \in 1..Len(Places) : scan[i].found = "absent"
       THEN /\ wLast' = "ingestion: no supported files found"
            /\ UNCHANGED <<wPc, wChunks, wDriver, wData, wOld, file, envDriver, apiKey>>
            /\ UNCHANGED varsReaders
     ELSE IF AllChunks(scan, 1) = <<>>
       THEN /\ wLast' = "ingestion: no chunks created"
            /\ UNCHANGED <<wPc, wChunks, wDriver, wData, wOld, file, envDriver, apiKey>>
            /\ UNCHANGED varsReaders
     ELSE BuildIndex(AllChunks(scan, 1), envDriver)

(***************************************************************************)
(* retriever: retrieve and retrieveFiltered, called by several callers at  *)
(* once.  The question of a call is a text; its vector and the vectors of  *)
(* the records are the records embedTexts makes.                           *)
(***************************************************************************)
EMBEDDING_DIMENSION == 768

Callers == {"c1", "c2"}

VARIABLES
  cPc,        \* position of each call
  cCall,      \* the function called and its arguments
  cIndex,     \* indexData, what loadIndex resolved with
  cVec,       \* queryEmbedding
  cOut        \* how the call ended

varsCallers == <<cPc, cCall, cIndex, cVec, cOut>>

NoFilters == [source |-> NoText, unit |-> NoText, minScore |-> [set |-> FALSE, value |-> 0]]

\* the calls: retrieve(question, k) and retrieveFiltered(question,
\* {minScore}, k), k being 1 or left out
Calls ==
  {[fn |-> "retrieve", question |-> q, filters |-> NoFilters, k |-> k] :
      q \in {"binary trees", "heap data structure"}, k \in {1, RAG_TOP_K}}
  \cup
  {[fn |-> "retrieveFiltered", question |-> q, k |-> k,
    filters |-> [NoFilters EXCEPT !.minScore = [set |-> TRUE, value |-> 40]]] :
      q \in {"binary trees", "heap data structure"}, k \in {1, RAG_TOP_K}}

NoCaller == [fn |-> "none", question |-> "none", filters |-> NoFilters, k |-> 0]
NoAnswer == [status |-> "none", error |-> "none", query |-> "none", results |-> <<>>,
             confidence |-> FALSE, total_chunks |-> 0]

CallersIdle ==
  /\ cPc = [c \in Callers |-> "idle"]
  /\ cCall = [c \in Callers |-> NoCaller]
  /\ cIndex = [c \in Callers |-> NoData]
  /\ cVec = [c \in Callers |-> NoVector]
  /\ cOut = [c \in Callers |-> NoAnswer]

\* a.length: the vectors of text-embedding-004 and of hashEmbed have
\* EMBEDDING_DIMENSION numbers, the vectors of another model another count
Length(v) ==
  IF v.mode = "other model" THEN EMBEDDING_DIMENSION \div 2 ELSE EMBEDDING_DIMENSION

\* the embeddings of the records differ in length
MixedDimensions(chunks) ==
  \E i \in 1..Len(chunks), j \in 1..Len(chunks) :
     Length(chunks[i].embedding) # Length(chunks[j].embedding)

\* cosineSimilarity(a, b) in hundredths: it throws on different lengths;
\* a vector scores 1 with itself, and any two different vectors are given
\* the score 0.1 here
cosineSimilarity(a, b) ==
  IF Length(a) # Length(b) THEN [raised |-> TRUE, score |-> 0]
  ELSE IF a = b THEN [raised |-> FALSE, score |-> 100]
  ELSE [raised |-> FALSE, score |-> 10]

\* a slip: the question is kept in a place all calls share
respondSharedQuestion(call, indexData, queryEmbedding) ==
  LET cos(i) == cosineSimilarity(queryEmbedding, indexData.chunks[i].embedding)
      sims == [i \in 1..Len(indexData.chunks) |->
                 [index |-> i, score |-> cos(i).score,
                  metadata |-> indexData.chunks[i].metadata]]
      r == IF call.fn = "retrieve" THEN retrieve(sims, call.k, RAG_MIN_SIM)
           ELSE retrieveFiltered(sims, call.filters, call.k, RAG_MIN_SIM)
  IN  IF \E i \in 1..Len(indexData.chunks) : cos(i).raised
        THEN [NoAnswer EXCEPT !.status = "rejected",
                              !.error = "Vectors must have same length"]
        ELSE [NoAnswer EXCEPT !.status = "resolved", !.query = "binary trees",
                              !.results = r.results, !.confidence = r.confidence,
                              !.total_chunks = r.total_chunks]

\* retrieve lines 71-121 and retrieveFiltered lines 139-181: the response
\* to call, from the loaded index and the query vector
respond(call, indexData, queryEmbedding) ==
  LET cos(i) == cosineSimilarity(queryEmbedding, indexData.chunks[i].embedding)
      sims == [i \in 1..Len(indexData.chunks) |->
                 [index |-> i, score |-> cos(i).score,
                  metadata |-> indexData.chunks[i].metadata]]
      r == IF call.fn = "retrieve" THEN retrieve(sims, call.k, RAG_MIN_SIM)
           ELSE retrieveFiltered(sims, call.filters, call.k, RAG_MIN_SIM)
  IN  IF \E i \in 1..Len(indexData.chunks) : cos(i).raised
        THEN [NoAnswer EXCEPT !.status = "rejected",
                              !.error = "Vectors must have same length"]
        ELSE [NoAnswer EXCEPT !.status = "resolved", !.query = call.question,
                              !.results = r.results, !.confidence = r.confidence,
                              !.total_chunks = r.total_chunks]

\* retrieve lines 53-69 (reached through retrieveFiltered line 139 as
\* well): up to the await of embedQuery
RetrieveCalled(c, call) ==
  /\ cPc[c] = "idle"
  /\ cCall' = [cCall EXCEPT ![c] = call]
  /\ LET indexData == loadIndex(file)
     IN  IF indexData.null
           THEN /\ cPc' = [cPc EXCEPT ![c] = "done"]
                /\ cOut' = [cOut EXCEPT ![c] =
                     [NoAnswer EXCEPT !.status = "rejected",
                                      !.error = "No RAG index found"]]
                /\ UNCHANGED cIndex
           ELSE /\ cPc' = [cPc EXCEPT ![c] = "embedding"]
                /\ cIndex' = [cIndex EXCEPT ![c] = indexData.data]
                /\ UNCHANGED cOut
  /\ UNCHANGED <<cVec, file, envDriver, apiKey>>

\* retrieve lines 69-121: embedQuery has resolved, with the vector of the
\* model or, the call of the model having failed, with hashEmbed's
QueryEmbedded(c, callOk) ==
  /\ cPc[c] = "embedding"
  /\ LET queryEmbedding == embedTexts(<<cCall[c].question>>, callOk)[1]
     IN  /\ cVec' = [cVec EXCEPT ![c] = queryEmbedding]
         /\ cOut' = [cOut EXCEPT ![c] = respond(cCall[c], cIndex[c], queryEmbedding)]
  /\ cPc' = [cPc EXCEPT ![c] = "done"]
  /\ UNCHANGED <<cCall, cIndex, file, envDriver, apiKey>>

\* the caller has the response or the error; its next call may come
CallReturns(c) ==
  /\ cPc[c] = "done"
  /\ cPc' = [cPc EXCEPT ![c] = "idle"]
  /\ cCall' = [cCall EXCEPT ![c] = NoCaller]
  /\ cIndex' = [cIndex EXCEPT ![c] = NoData]
  /\ cVec' = [cVec EXCEPT ![c] = NoVector]
  /\ cOut' = [cOut EXCEPT ![c] = NoAnswer]
  /\ UNCHANGED <<file, envDriver, apiKey>>

varsRest == <<varsEmbed, varsLib, varsCallers>>

RestIdle ==
  /\ ePc = "idle" /\ eTexts = <<>> /\ eI = 0 /\ eEmbeddings = <<>>
  /\ eFailed = 0 /\ eOut = <<>>
  /\ libCall = NoCall /\ libRet = NoCall
  /\ CallersIdle

(***************************************************************************)
(* Specifications.                                                         *)
(***************************************************************************)
vars == <<varsGen, varsIdx, varsPost, varsRest>>

PostOff == enableRag = FALSE /\ PostIdle /\ RestIdle

InitGen == apiKey \in BOOLEAN /\ GenIdle /\ envDriver = "json" /\ IdxIdle /\ PostOff

\* the steps of one generateFromPrompt invocation on its own
GenerateStep == GenerateFromPrompt /\ UNCHANGED <<varsIdx, varsPost, varsRest>>
FetchStep(resp) == FetchSettles(resp) /\ UNCHANGED <<varsIdx, varsPost, varsRest>>
BackoffStep == BackoffElapsed /\ UNCHANGED <<varsIdx, varsPost, varsRest>>
ReturnStep == GenReturn /\ UNCHANGED <<varsIdx, varsPost, varsRest>>

NextGen ==
  \/ GenerateStep
  \/ \E resp \in Responses : FetchStep(resp)
  \/ BackoffStep
  \/ ReturnStep

SpecGen == InitGen /\ [][NextGen]_vars

InitIndex ==
  apiKey \in BOOLEAN /\ envDriver \in EnvDrivers /\ GenIdle /\ IdxIdle /\ PostOff

varsGenOnly ==
  <<gPc, gModel, gAttempt, gDelay, gLog, gRaw, gResult, gError, varsPost, varsRest>>

NextIndex ==
  \/ \E chunks \in ChunkLists, driver \in Drivers :
        BuildIndex(chunks, driver) /\ UNCHANGED varsGenOnly
  \/ \E callOk \in BOOLEAN : EmbeddingsReady(callOk) /\ UNCHANGED varsGenOnly
  \/ WriteOpen /\ UNCHANGED varsGenOnly
  \/ WritePiece /\ UNCHANGED varsGenOnly
  \/ WriteDone /\ UNCHANGED varsGenOnly
  \/ ClearIndex /\ UNCHANGED varsGenOnly
  \/ \E r \in Readers : LoadIndex(r) /\ UNCHANGED varsGenOnly
  \/ \E r \in Readers, q \in Queries : RetrieveLoad(r, q) /\ UNCHANGED varsGenOnly
  \/ \E r \in Readers : RetrieveRespond(r) /\ UNCHANGED varsGenOnly

SpecIndex == InitIndex /\ [][NextIndex]_vars

\* the index.json a request may find: none, a snapshot, or one half written
PersistedFiles ==
  LET snapshot(l) ==
        Stringify(IndexDataOf(IndexedChunks(l,
          embedTexts([i \in 1..Len(l) |-> l[i].text], TRUE))))
  IN  {Absent}
      \cup {[exists |-> TRUE, content |-> snapshot(l)] : l \in ChunkLists}
      \cup {[exists |-> TRUE, content |-> SubSeq(snapshot(l), 1, 1)] : l \in ChunkLists}

InitPost ==
  /\ apiKey \in BOOLEAN /\ envDriver \in EnvDrivers /\ enableRag \in BOOLEAN
  /\ GenIdle /\ PostIdle /\ RestIdle
  /\ file \in PersistedFiles
  /\ wPc = "idle" /\ wChunks = <<>> /\ wDriver = "none" /\ wData = <<>>
  /\ wOld = Absent /\ wLast = "none"
  /\ rPc = [r \in Readers |-> "idle"]
  /\ rSaw = [r \in Readers |-> "none"]
  /\ rIndex = [r \in Readers |-> ReturnedNull]
  /\ rOut = [r \in Readers |-> NoOutcome]

NextPost ==
  \/ \E body \in Bodies : Post(body) /\ UNCHANGED <<varsGen, varsIdx, varsRest>>
  \/ \E scoring \in {"scored", "Vectors must have same length"} :
        PostRetrieved(scoring) /\ UNCHANGED <<envDriver, file, varsWriter, varsReaders, varsRest>>
  \/ \E resp \in Responses :
        pPc = "generating" /\ FetchSettles(resp)
        /\ UNCHANGED <<envDriver, file, varsWriter, varsReaders, varsPost, varsRest>>
  \/ pPc = "generating" /\ BackoffElapsed
        /\ UNCHANGED <<envDriver, file, varsWriter, varsReaders, varsPost, varsRest>>
  \/ \E doc \in Documents :
        PostGenerated(doc) /\ UNCHANGED <<envDriver, file, varsWriter, varsReaders, varsRest>>
  \/ \E outcome \in HeuristicOutcomes :
        PostHeuristicDone(outcome) /\ UNCHANGED <<varsGen, varsIdx, varsRest>>
  \/ PostReturn /\ UNCHANGED <<varsGen, varsIdx, varsRest>>

SpecPost == InitPost /\ [][NextPost]_vars

\* one caller of embedTexts
NextEmbed ==
  \/ /\ ePc = "idle"
     /\ \E texts \in TextLists : EmbedTexts(texts)
     /\ UNCHANGED <<varsGen, varsIdx, varsPost, varsLib, varsCallers>>
  \/ \E failed \in 0..batchSize :
        BatchSettles(failed) /\ UNCHANGED <<varsGen, varsIdx, varsPost, varsLib, varsCallers>>
  \/ DelayElapsed /\ UNCHANGED <<varsGen, varsIdx, varsPost, varsLib, varsCallers>>

SpecEmbed == InitGen /\ [][NextEmbed]_vars

\* one call of one library function
NextLib ==
  \/ /\ libCall = NoCall
     /\ \E sims \in Similarities, k \in -1..2,
           env \in {[set |-> FALSE, value |-> 0], [set |-> TRUE, value |-> 0],
                    [set |-> TRUE, value |-> 40]} :
           Retrieve(sims, k, env)
     /\ UNCHANGED <<varsGen, varsIdx, varsPost, varsEmbed, varsCallers>>
  \/ /\ libCall = NoCall
     /\ \E sims \in Similarities, filters \in Filters, k \in {-1, 1, 2} :
           RetrieveFiltered(sims, filters, k)
     /\ UNCHANGED <<varsGen, varsIdx, varsPost, varsEmbed, varsCallers>>
  \/ /\ libCall = NoCall
     /\ \E lengths \in SeqsUpTo({4, 37, 401, 2000}, MaxIndexed),
           maxTokens \in {0, 60, 100, 200} :
           BuildContextSection(lengths, maxTokens)
     /\ UNCHANGED <<varsGen, varsIdx, varsPost, varsEmbed, varsCallers>>
  \/ /\ libCall = NoCall
     /\ \E sentences \in SentenceLists, chunkSizeWords \in 2..4 :
           \E overlapWords \in 0..(chunkSizeWords - 1) :
              ChunkText(sentences, chunkSizeWords, overlapWords)
     /\ UNCHANGED <<varsGen, varsIdx, varsPost, varsEmbed, varsCallers>>
  \/ /\ libCall = NoCall
     /\ \E kind \in {"raised", "syntax error", "null", "number", "array", "object"},
           expectedKeys \in SUBSET {"answer", "citations", "exam_format", "summary"} :
           \E keys \in (IF kind = "object"
                          THEN SUBSET {"answer", "citations", "exam_format", "summary"}
                          ELSE {{}}) :
              GenerateStructuredResponse([kind |-> kind, keys |-> keys], expectedKeys)
     /\ UNCHANGED <<varsGen, varsIdx, varsPost, varsEmbed, varsCallers>>
  \/ /\ libCall = NoCall
     /\ \E query \in QueryStrings : ExpandQuery(query)
     /\ UNCHANGED <<varsGen, varsIdx, varsPost, varsEmbed, varsCallers>>

\* one run of the ingest script over an index directory in any state
InitIngest == InitPost /\ enableRag = FALSE

NextIngest ==
  \/ /\ wPc = "idle"
     /\ \E scan \in Scans : IngestDocuments(scan)
     /\ UNCHANGED varsGenOnly
  \/ \E callOk \in BOOLEAN : EmbeddingsReady(callOk) /\ UNCHANGED varsGenOnly
  \/ WriteOpen /\ UNCHANGED varsGenOnly
  \/ WritePiece /\ UNCHANGED varsGenOnly
  \/ WriteDone /\ UNCHANGED varsGenOnly

SpecIngest == InitIngest /\ [][NextIngest]_vars

\* the index.json a call of retrieve may find: what PersistedFiles has, or
\* a snapshot whose records were embedded by two models
StoredFiles ==
  PersistedFiles \cup
  {[exists |-> TRUE,
    content |-> Stringify(IndexDataOf(IndexedChunks(l,
                  <<[mode |-> "api", of |-> l[1].text],
                    [mode |-> "other model", of |-> l[2].text]>>)))] :
     l \in {x \in ChunkLists : Len(x) = 2}}

\* the calls of retrieve and retrieveFiltered over a persisted index
InitRetrieve ==
  /\ apiKey \in BOOLEAN /\ envDriver \in EnvDrivers /\ enableRag = FALSE
  /\ GenIdle /\ PostIdle
  /\ ePc = "idle" /\ eTexts = <<>> /\ eI = 0 /\ eEmbeddings = <<>>
  /\ eFailed = 0 /\ eOut = <<>>
  /\ libCall = NoCall /\ libRet = NoCall
  /\ CallersIdle
  /\ file \in StoredFiles
  /\ wPc = "idle" /\ wChunks = <<>> /\ wDriver = "none" /\ wData = <<>>
  /\ wOld = Absent /\ wLast = "none"
  /\ rPc = [r \in Readers |-> "idle"]
  /\ rSaw = [r \in Readers |-> "none"]
  /\ rIndex = [r \in Readers |-> ReturnedNull]
  /\ rOut = [r \in Readers |-> NoOutcome]

varsButCallers ==
  <<gPc, gModel, gAttempt, gDelay, gLog, gRaw, gResult, gError, varsPost,
    varsEmbed, varsLib, varsWriter, varsReaders>>

NextRetrieve ==
  \/ \E c \in Callers, call \in Calls : RetrieveCalled(c, call) /\ UNCHANGED varsButCallers
  \/ \E c \in Callers, callOk \in BOOLEAN :
        QueryEmbedded(c, callOk) /\ UNCHANGED varsButCallers
  \/ \E c \in Callers : CallReturns(c) /\ UNCHANGED varsButCallers

SpecRetrieve == InitRetrieve /\ [][NextRetrieve]_vars

\* builds of the index and calls of retrieve(question) by one caller, in
\* any order
NextBuildRetrieve ==
  \/ \E chunks \in ChunkLists :
        BuildIndex(chunks, envDriver) /\ UNCHANGED varsGenOnly
  \/ \E callOk \in BOOLEAN : EmbeddingsReady(callOk) /\ UNCHANGED varsGenOnly
  \/ WriteOpen /\ UNCHANGED varsGenOnly
  \/ WritePiece /\ UNCHANGED varsGenOnly
  \/ WriteDone /\ UNCHANGED varsGenOnly
  \/ \E call \in {x \in Calls : x.fn = "retrieve" /\ x.k = RAG_TOP_K} :
        RetrieveCalled("c1", call) /\ UNCHANGED varsButCallers
  \/ \E callOk \in BOOLEAN : QueryEmbedded("c1", callOk) /\ UNCHANGED varsButCallers
  \/ CallReturns("c1") /\ UNCHANGED varsButCallers

SpecBuildRetrieve == InitIndex /\ [][NextBuildRetrieve]_vars

\* the library functions modelled here do not read the API key
InitLib == apiKey = FALSE /\ GenIdle /\ envDriver = "json" /\ IdxIdle /\ PostOff

SpecLib == InitLib /\ [][NextLib]_vars

(***************************************************************************)
(* Generation client: properties.                                          *)
(***************************************************************************)
CallsTo(model) == {i \in 1..Len(gLog) : gLog[i].model = model}

\* every one of the maxRetries attempts on the primary model failed
PrimaryExhausted ==
  /\ Cardinality(CallsTo(GEN_MODEL)) = maxRetries
  /\ \A i \in CallsTo(GEN_MODEL) : gLog[i].outcome \in {"error", "safety"}

\* the last call went to the fallback model and returned a text
FallbackSucceeded ==
  /\ gLog # <<>>
  /\ gLog[Len(gLog)].model = GEN_MODEL_FALLBACK
  /\ gLog[Len(gLog)].outcome = "ok"

Spaces(n) == [i \in 1..n |-> " "]

\* res is raw without its leading and trailing whitespace
IsTrimOf(res, raw) ==
  /\ res # <<>> /\ res[1] # " " /\ res[Len(res)] # " "
  /\ \E i \in 0..Len(raw), j \in 0..Len(raw) : raw = Spaces(i) \o res \o Spaces(j)

\* C2 as stated: when the primary model failed on all 3 attempts and the
\* fallback model then succeeded, generateFromPrompt resolves with exactly
\* the text the fallback model returned, and nothing is raised.
C2_ExactFallbackText ==
  (PrimaryExhausted /\ FallbackSucceeded) =>
     (gPc = "resolved" /\ gError = "none" /\ gResult = gRaw)

\* C2 amended: when the primary model failed on all 3 attempts and the
\* fallback model then succeeded, generateFromPrompt resolves with the
\* fallback model's text stripped of leading and trailing whitespace, and
\* nothing is raised.
C2_TrimmedFallbackText ==
  (PrimaryExhausted /\ FallbackSucceeded) =>
     (gPc = "resolved" /\ gError = "none" /\ IsTrimOf(gResult, gRaw))

C2_Witness ==
  /\ PrimaryExhausted /\ FallbackSucceeded
  /\ gPc = "resolved" /\ gResult # gRaw /\ Len(gResult) = 1

\* C3 as stated: after the primary model failed on all its attempts exactly
\* one call goes to the fallback model; no second fallback call is issued.
C3_OneFallbackCall == Cardinality(CallsTo(GEN_MODEL_FALLBACK)) <= 1

\* C3 amended: the fallback model is called only after the primary model has
\* failed on all maxRetries attempts, it is called at most maxRetries times
\* (the same retry loop), and an invocation that holds the API key raises
\* only when the fallback model's attempt number maxRetries has failed.
C3_FallbackRetried ==
  /\ Cardinality(CallsTo(GEN_MODEL_FALLBACK)) <= maxRetries
  /\ Cardinality(CallsTo(GEN_MODEL)) <= maxRetries
  /\ CallsTo(GEN_MODEL_FALLBACK) # {} =>
        /\ PrimaryExhausted
        /\ \A i \in CallsTo(GEN_MODEL), j \in CallsTo(GEN_MODEL_FALLBACK) : i < j
  /\ (gPc = "raised" /\ apiKey) =>
        /\ Cardinality(CallsTo(GEN_MODEL_FALLBACK)) = maxRetries
        /\ \A i \in 1..Len(gLog) : gLog[i].outcome \in {"error", "safety"}

C3_Witness ==
  /\ gPc = "raised"
  /\ Cardinality(CallsTo(GEN_MODEL_FALLBACK)) = maxRetries

\* C4: once a model has answered with finishReason SAFETY, the invocation
\* issues no further call to that same model.
C4_SafetyNotRetried ==
  \A i \in 1..Len(gLog), j \in 1..Len(gLog) :
     (i < j /\ gLog[i].outcome = "safety") => gLog[j].model # gLog[i].model

\* The scheduling the code has: timers fire, the caller continues. Nothing
\* in the client makes a fetch settle: no timeout, no abort signal.
SpecGenFair ==
  /\ InitGen /\ [][NextGen]_vars
  /\ WF_vars(GenerateStep) /\ WF_vars(BackoffStep) /\ WF_vars(ReturnStep)

\* C5: every generation call is bounded, so an invocation that has issued a
\* call eventually resolves or raises, also when the service never answers.
C5_InvocationSettles == (gPc = "calling") ~> (gPc \in {"resolved", "raised"})
(***************************************************************************)
(* Index store: properties.                                                *)
(***************************************************************************)
Complete(f) == f.exists /\ WellFormed(f.content)

\* buildIndex is replacing a snapshot that was persisted when it began
RebuildInProgress ==
  /\ wPc \in {"embedding", "opening", "writing"}
  /\ Complete(wOld)

\* C1: while buildIndex rewrites an existing snapshot, a loadIndex issued at
\* any moment returns the complete previous snapshot or the complete new
\* one, never null and never part of a snapshot (RAG_INDEX_DRIVER being a
\* supported driver).
C1_ReadersSeeOldOrNew ==
  (RebuildInProgress /\ envDriver \in SupportedDrivers) =>
     LET r == loadIndex(file)
     IN  /\ ~r.raised /\ ~r.null
         /\ \/ r.data = Parse(wOld.content)
            \/ wData # <<>> /\ r.data = Parse(wData)

\* C8: a retrieve whose loadIndex found no index.json rejects with the
\* 'No RAG index found' error; it does not go on to resolve.
C8_RetrieveRejectsWithoutIndex ==
  \A r \in Readers :
     (rOut[r].op = "retrieve" /\ rSaw[r] = "absent") =>
        (rOut[r].status = "rejected" /\ rOut[r].error = "No RAG index found")

C8_Witness ==
  \E r \in Readers :
     /\ rOut[r].op = "retrieve" /\ rSaw[r] = "absent"
     /\ rOut[r].status = "rejected"
     /\ wLast = "cleared"

\* loaded is the record rec as buildIndex was given it, with a vector
SameRecord(loaded, rec) ==
  /\ Get(loaded, "id") = rec.id
  /\ Get(loaded, "text") = rec.text
  /\ \A k \in MetaKeys : Get(loaded.metadata, k) = rec.metadata[k]
  /\ "embedding" \in DOMAIN loaded
  /\ loaded.embedding.of = rec.text

\* C9: once buildIndex(records) has succeeded (and until the next buildIndex
\* or clearIndex), loadIndex returns a snapshot whose chunks are exactly
\* records, in order, each with its embedding, and whose chunk_count is the
\* number of records, whatever was persisted before.
C9_BuildReplacesWholeSnapshot ==
  (wPc = "idle" /\ wLast = "built" /\ envDriver \in SupportedDrivers) =>
     LET r == loadIndex(file)
     IN  /\ ~r.raised /\ ~r.null
         /\ Len(r.data.chunks) = Len(wChunks)
         /\ \A i \in 1..Len(wChunks) : SameRecord(r.data.chunks[i], wChunks[i])
         /\ r.data.metadata.chunk_count = Len(wChunks)

C9_Witness ==
  /\ wPc = "idle" /\ wLast = "built" /\ envDriver \in SupportedDrivers
  /\ Complete(wOld)
  /\ Len(Parse(wOld.content).chunks) = 2
  /\ Len(wChunks) = 1
  /\ Len(loadIndex(file).data.chunks) = 1

\* C10: loadIndex never raises; it returns null when index.json does not
\* exist and when it exists but does not parse; clearIndex does not raise
\* when there is nothing to remove.
C10_LoadAndClearNeverRaise ==
  /\ \A r \in Readers :
        rOut[r].op = "loadIndex" =>
           /\ rOut[r].status # "rejected"
           /\ rSaw[r] \in {"absent", "unparseable"} => rOut[r].status = "resolved: null"
  /\ wLast \in {"none", "built", "rejected: Unsupported index driver",
                 "cleared", "cleared: nothing to remove"}

C10_Witness ==
  /\ \E r \in Readers :
        /\ rOut[r].op = "loadIndex" /\ rSaw[r] = "unparseable"
        /\ rOut[r].status = "resolved: null"
  /\ wLast = "cleared: nothing to remove"

(***************************************************************************)
(* POST handler: properties.                                               *)
(***************************************************************************)
\* the request went through retrieval and retrieval was not confident
LowConfidenceAnswered ==
  pPc = "done" /\ pRetr.status = "resolved" /\ ~pRetr.confidence

\* C6 as stated: when retrieval confidence is false the answer is the
\* literal "Not found in context." and citations and sources are empty.
C6_SentinelAsInSpec ==
  LowConfidenceAnswered =>
     /\ pResp.answer = "Not found in context."
     /\ pResp.citations = <<>> /\ pResp.sources = <<>>

\* C6 amended: when retrieval confidence is false the answer is the literal
\* "Not found in VTU context." and citations and sources are empty.
C6_SentinelAsInCode ==
  LowConfidenceAnswered =>
     /\ pResp.answer = "Not found in VTU context."
     /\ pResp.citations = <<>> /\ pResp.sources = <<>>

C6_Witness ==
  /\ LowConfidenceAnswered
  /\ Len(pRetr.results) = 2
  /\ pResp.answer = "Not found in VTU context."

\* C7: POST always resolves with a response that carries answer, citations
\* and sources, whatever the body and whatever fails; no exception escapes;
\* after a failure of the RAG pipeline the heuristic system is tried before
\* any error response is given.
C7_AlwaysAResponse ==
  /\ pPc # "threw"
  /\ pPc = "done" =>
        /\ pResp.status \in {200, 400, 500}
        /\ pResp.answer # Undefined
        /\ pRagError # "none" => pHeur # "none"
        /\ (pRagError # "none" /\ pResp.status = 500) =>
              (pHeur \in {"no success", "throws"}
               /\ pResp.method = "heuristic_fallback")

C7_Witness ==
  /\ pPc = "done"
  /\ pRagError = "Generation failed"
  /\ pHeur = "throws"
  /\ pResp.status = 500

(***************************************************************************)
(* embedTexts: properties.                                                 *)
(***************************************************************************)
AllOfMode(out, texts, mode) ==
  /\ Len(out) = Len(texts)
  /\ \A i \in 1..Len(texts) : out[i] = [mode |-> mode, of |-> texts[i]]

\* C11: one embedTexts call never rejects and never returns mixed vectors:
\* it resolves with one vector per text, all of them from the embedding
\* model, or, when there is no key or any request of any batch failed, all
\* of them the deterministic fallback, the texts of earlier batches included.
C11_NeverMixed ==
  /\ ePc \in {"idle", "batch", "delay", "resolved"}
  /\ ePc = "resolved" =>
       IF ~apiKey \/ eFailed # 0
         THEN AllOfMode(eOut, eTexts, "hash")
         ELSE AllOfMode(eOut, eTexts, "api")

\* a request of the second batch failed after the first batch was embedded
C11_Witness ==
  /\ ePc = "resolved" /\ eFailed > batchSize /\ Len(eEmbeddings) = batchSize
  /\ Len(eOut) = Len(eTexts)

(***************************************************************************)
(* retriever.ts: properties.                                               *)
(***************************************************************************)
Ranked(results) ==
  \A i \in 1..(Len(results) - 1) : results[i].score >= results[i + 1].score

\* every chunk that is not returned scores no more than any returned one
TopScoring(results, sims) ==
  LET returned == {results[i].index : i \in 1..Len(results)}
  IN  \A j \in 1..Len(sims) :
        j \notin returned => \A i \in 1..Len(results) : sims[j].score <= results[i].score

\* C12 as stated: for every snapshot, query and k the results of retrieve
\* are in non-increasing order of score, number at most k and are the
\* highest-scoring chunks of the snapshot.
C12_RankedTopKForEveryK ==
  libCall.fn = "retrieve" =>
    /\ Ranked(libRet.results)
    /\ Len(libRet.results) <= libCall.k
    /\ TopScoring(libRet.results, libCall.similarities)

\* C12, amended: the same for every k >= 0, where moreover exactly
\* min(k, number of chunks) results are returned.
C12_RankedTopK ==
  libCall.fn = "retrieve" /\ libCall.k >= 0 =>
    /\ Ranked(libRet.results)
    /\ Len(libRet.results) <= libCall.k
    /\ Len(libRet.results) =
         (IF libCall.k < Len(libCall.similarities) THEN libCall.k
          ELSE Len(libCall.similarities))
    /\ TopScoring(libRet.results, libCall.similarities)

\* two of three chunks are returned; the chunk stored last scores highest
\* and comes back first
C12_Witness ==
  /\ libCall.fn = "retrieve" /\ libCall.k = 2 /\ Len(libCall.similarities) = 3
  /\ Len(libRet.results) = 2
  /\ libRet.results[1].index = 3
  /\ libRet.results[1].score > libRet.results[2].score

\* C13: for every configured minimum similarity, confidence is true exactly
\* when the mean score of the returned results is at least the configured
\* value (RAG_MIN_SIM of the environment, 0.25 when it is not set).
C13_ConfidenceIffMeanAtLeastConfigured ==
  LET configured == IF libCall.RAG_MIN_SIM.set THEN libCall.RAG_MIN_SIM.value
                    ELSE RAG_MIN_SIM
      scores == [i \in 1..Len(libRet.results) |-> libRet.results[i].score]
  IN  libCall.fn = "retrieve" /\ Len(libRet.results) > 0 =>
        (libRet.confidence <=> Sum(scores) >= configured * Len(scores))

\* the filters as the claim words them: source contains the given text, unit
\* equals the given unit, score >= minScore
SatisfiesAsStated(r, filters) ==
  /\ filters.source # NoText => Includes(r.metadata.source, filters.source)
  /\ filters.unit # NoText => r.metadata.unit = filters.unit
  /\ filters.minScore.set => r.score >= filters.minScore.value

\* the same with letter case ignored and an empty string counting as no filter
SatisfiesIgnoringCase(r, filters) ==
  /\ filters.source \notin {NoText, <<>>} =>
       Includes(ToLowerCase(r.metadata.source), ToLowerCase(filters.source))
  /\ filters.unit \notin {NoText, <<>>} =>
       /\ r.metadata.unit # NoText
       /\ ToLowerCase(r.metadata.unit) = ToLowerCase(filters.unit)
  /\ filters.minScore.set => r.score >= filters.minScore.value

\* the 2k highest-scoring records, in rank order
Candidates == retrieve(libCall.similarities, 2 * libCall.k, RAG_MIN_SIM).results

PositionIn(seq, r) == CHOOSE i \in 1..Len(seq) : seq[i] = r

\* results is a sub-list of the candidates, in their order, that stops
\* early only when k results have been taken
FirstKOf(results, k, Wanted(_)) ==
  /\ Len(results) <= k
  /\ \A i \in 1..Len(results) :
       /\ \E j \in 1..Len(Candidates) : Candidates[j] = results[i]
       /\ Wanted(results[i])
  /\ \A i \in 1..(Len(results) - 1) :
       PositionIn(Candidates, results[i]) < PositionIn(Candidates, results[i + 1])
  /\ \A j \in 1..Len(Candidates) :
       (Wanted(Candidates[j]) /\ \A i \in 1..Len(results) : results[i] # Candidates[j])
         => /\ Len(results) = k
            /\ \A i \in 1..Len(results) : PositionIn(Candidates, results[i]) < j

\* C14 as stated: retrieveFiltered returns the first k, in rank order, of
\* the records among the 2k highest-scoring that satisfy every supplied
\* filter; the results are sorted by non-increasing score.
C14_FirstKSatisfyingAsStated ==
  libCall.fn = "retrieveFiltered" =>
    LET stated(r) == SatisfiesAsStated(r, libCall.filters)
    IN  FirstKOf(libRet.results, libCall.k, stated) /\ Ranked(libRet.results)

\* C14, amended: for k >= 0 retrieveFiltered returns the first k, in rank
\* order, of the records among the 2k highest-scoring that pass every
\* non-empty filter, source and unit being compared with letter case ignored.
C14_FirstKSatisfyingIgnoringCase ==
  libCall.fn = "retrieveFiltered" /\ libCall.k >= 0 =>
    LET passes(r) == SatisfiesIgnoringCase(r, libCall.filters)
    IN  FirstKOf(libRet.results, libCall.k, passes) /\ Ranked(libRet.results)

\* k = 1 of three records: the only record that passes the filters ranks
\* third, outside the 2k candidates, and nothing is returned
C14_Witness ==
  /\ libCall.fn = "retrieveFiltered" /\ libCall.k = 1
  /\ Len(libCall.similarities) = 3 /\ libCall.filters.unit = <<"a">>
  /\ libRet.results = <<>>
  /\ \E j \in 1..3 : SatisfiesIgnoringCase(libCall.similarities[j], libCall.filters)

(***************************************************************************)
(* POST handler: filters and the useRag switch.                            *)
(***************************************************************************)
\* C15: when a request carries a unit filter, every source of the response
\* the RAG pipeline gives, and every retrieved chunk handed to generation,
\* has that unit.
C15_FiltersApplied ==
  (/\ pPc = "done" /\ pResp.method = "rag" /\ pRetr.confidence
   /\ pBody.filters.unit # Undefined) =>
    /\ \A i \in 1..Len(pResp.sources) : pResp.sources[i].unit = pBody.filters.unit
    /\ \A i \in 1..Len(pRetr.results) :
         Get(pRetr.results[i].metadata, "unit") = pBody.filters.unit

(***************************************************************************)
(* Prompt builder: properties.                                             *)
(***************************************************************************)
\* C16: the token estimate of the context section exceeds maxContextTokens
\* by no more than a fixed margin, the base overhead of 50 tokens, whatever
\* the ranked results are.
C16_TokenBudget ==
  libCall.fn = "buildContextSection" =>
    libRet.estimatedTokens <= libCall.maxTokens + 50

(***************************************************************************)
(* chunkText: properties.                                                  *)
(***************************************************************************)
\* chunk cur begins with exactly the last n words of chunk prev: prev has n
\* words to share, they open cur, and what follows them in cur is new text
BeginsWithLast(cur, prev, n) ==
  /\ Len(prev) >= n /\ Len(cur) > n
  /\ SubSeq(cur, 1, n) = SubSeq(prev, Len(prev) - n + 1, Len(prev))
  /\ \A j \in 1..Len(prev) : prev[j] # cur[n + 1]

\* C17: with overlapWords < maxWords, every chunk after the first begins
\* with exactly the last overlapWords words of the chunk before it.
C17_ChunkOverlap ==
  libCall.fn = "chunkText" =>
    \A c \in 2..Len(libRet.chunks) :
      BeginsWithLast(libRet.chunks[c], libRet.chunks[c - 1], libCall.overlapWords)

(***************************************************************************)
(* generateStructuredResponse: properties.                                 *)
(***************************************************************************)
\* C18: whatever text the model returned and whatever expectedKeys is,
\* generateStructuredResponse resolves with an object that has every key
\* of expectedKeys, and it raises only when the generation call raised.
C18_EveryExpectedKey ==
  libCall.fn = "generateStructuredResponse" =>
    IF libCall.generated.kind = "raised" THEN libRet.raised
    ELSE /\ ~libRet.raised
         /\ libRet.kind \in {"object", "array"}
         /\ libCall.expectedKeys \subseteq libRet.keys

\* C20: a valid request with useRag = false is answered by the heuristic
\* system: it never reaches retrieval or generation, and its response has
\* debug.method = "heuristic_fallback".
C20_UseRagFalseIsHeuristic ==
  (/\ pBody.useRag = "false" /\ ~ParsingThrows(pBody)
   /\ validateRequest(pBody) = "none") =>
    /\ pPc \notin {"retrieving", "generating"}
    /\ pPc = "done" => pResp.method = "heuristic_fallback"

(***************************************************************************)
(* Index store: the driver check.                                          *)
(***************************************************************************)
\* C19: buildIndex with a driver other than json, faiss or chroma rejects
\* before any embedding call is issued: no embedTexts call is ever pending
\* for such a build, and the step that rejects it leaves the file as it was.
C19_UnsupportedDriverRejectedFirst ==
  /\ [](wPc = "embedding" => wDriver \in SupportedDrivers)
  /\ [][(wPc # "idle" /\ wPc' = "idle"
         /\ wLast' = "rejected: Unsupported index driver") => file' = file]_vars

(***************************************************************************)
(* Ingestion: properties.                                                  *)
(***************************************************************************)
\* C21: the chunks one ingestion run hands to buildIndex have pairwise
\* distinct ids, each "{source}_chunk_{i}" of its own source.
C21_ChunkIdsDistinct ==
  /\ \A i \in 1..Len(wChunks), j \in 1..Len(wChunks) :
       i # j => wChunks[i].id # wChunks[j].id
  /\ \A i \in 1..Len(wChunks) :
       \E n \in 0..1 : wChunks[i].id = createChunk(wChunks[i].metadata.source, n).id

\* C30: a run that finds no supported file or creates no chunk ends without
\* buildIndex being called and without touching the file; the file changes
\* only in a run that created at least one chunk.
C30_NoChunksNoBuild ==
  /\ [](wLast \in {"ingestion: no supported files found", "ingestion: no chunks created"}
          => wPc = "idle" /\ wChunks = <<>>)
  /\ [][wLast' \in {"ingestion: no supported files found",
                    "ingestion: no chunks created"} => file' = file]_vars
  /\ [][file' # file => wChunks # <<>>]_vars

\* a run whose files gave no chunk has ended and the earlier snapshot is there
C30_Witness ==
  /\ wLast = "ingestion: no chunks created" /\ wPc = "idle"
  /\ file.exists /\ WellFormed(file.content) /\ Len(Parse(file.content).chunks) > 0

(***************************************************************************)
(* Prompt builder: the included blocks.                                    *)
(***************************************************************************)
\* C22: the blocks buildPrompt includes form a prefix of the ranked results
\* in unchanged order: contextSources has one entry per included block, the
\* entry at place p being the result of rank p, so that a result is included
\* only if every higher-ranked result is.
C22_IncludedBlocksArePrefix ==
  libCall.fn = "buildContextSection" =>
    /\ Len(libRet.sources) <= Len(libCall.lengths)
    /\ \A p \in 1..Len(libRet.sources) : libRet.sources[p] = p
    /\ \A i \in 1..Len(libCall.lengths) :
          (\E p \in 1..Len(libRet.sources) : libRet.sources[p] = i) =>
             \A j \in 1..(i - 1) : \E q \in 1..Len(libRet.sources) : libRet.sources[q] = j

\* two blocks were included and a third, lower-ranked one was dropped
C22_Witness ==
  /\ libCall.fn = "buildContextSection"
  /\ Len(libCall.lengths) = 3
  /\ libRet.sources = <<1, 2>>


(***************************************************************************)
(* Chunker: long sentences.                                                *)
(***************************************************************************)
\* C23: a sentence with more words than chunkSizeWords is emitted as a
\* chunk that holds that sentence and nothing else, wherever it stands in
\* the text.
C23_LongSentenceOwnChunk ==
  libCall.fn = "chunkText" =>
    \A i \in 1..Len(libCall.sentences) :
       Len(libCall.sentences[i]) > libCall.chunkSizeWords =>
          \E c \in 1..Len(libRet.chunks) : libRet.chunks[c] = libCall.sentences[i]

\* what the code does keep: the words of a long sentence stay together in
\* one chunk, and a long sentence that opens the text is a chunk by itself
C23_LongSentenceNotSplit ==
  libCall.fn = "chunkText" =>
    \A i \in 1..Len(libCall.sentences) :
       Len(libCall.sentences[i]) > libCall.chunkSizeWords =>
          /\ \E c \in 1..Len(libRet.chunks) :
                \E o \in 0..(Len(libRet.chunks[c]) - Len(libCall.sentences[i])) :
                   SubSeq(libRet.chunks[c], o + 1, o + Len(libCall.sentences[i]))
                     = libCall.sentences[i]
          /\ (i = 1 /\ Len(libCall.sentences) > 1) =>
                libRet.chunks[1] = libCall.sentences[1]


(***************************************************************************)
(* Query expansion: properties.                                            *)
(***************************************************************************)
\* C25: expandQuery(q) contains q itself, unchanged, and contains no string
\* more than once.
C25_ContainsQueryNoDuplicates ==
  libCall.fn = "expandQuery" =>
    /\ \E n \in 1..Len(libRet.expansions) : libRet.expansions[n] = libCall.query
    /\ \A m \in 1..Len(libRet.expansions), n \in 1..Len(libRet.expansions) :
          libRet.expansions[m] = libRet.expansions[n] => m = n

\* a query with two terms, one of them not in lower case, was expanded
C25_Witness ==
  /\ libCall.fn = "expandQuery"
  /\ libCall.query # ToLowerCase(libCall.query)
  /\ Len(libRet.expansions) = 5

\* C26: expanding any member of expandQuery(q) again yields no string that
\* is not in expandQuery(q) already.
C26_ExpansionIdempotent ==
  libCall.fn = "expandQuery" =>
    \A m \in 1..Len(libRet.expansions) :
       LET again == expandQuery(libRet.expansions[m])
       IN  \A a \in 1..Len(again) :
              \E n \in 1..Len(libRet.expansions) : libRet.expansions[n] = again[a]


(***************************************************************************)
(* POST: the confidence gate.                                              *)
(***************************************************************************)
\* C29: once retrieve has resolved with confidence false, POST has its
\* response, the "not found" answer of the RAG method, and neither a
\* generation call nor the heuristic system was started for the request;
\* a generation call is pending or logged only after a retrieval whose
\* confidence is true.
C29_ConfidenceGate ==
  /\ (pRetr.status = "resolved" /\ ~pRetr.confidence) =>
        /\ pPc = "done"
        /\ pResp.status = 200 /\ pResp.answer = NOT_FOUND_ANSWER /\ pResp.method = "rag"
        /\ gPc = "idle" /\ gLog = <<>>
        /\ pHeur = "none" /\ pRagError = "none"
  /\ (pPc = "generating" \/ gPc # "idle" \/ gLog # <<>>) =>
        pRetr.status = "resolved" /\ pRetr.confidence

\* chunks were retrieved with too low a mean score, with the API key set
C29_Witness ==
  /\ pRetr.status = "resolved" /\ ~pRetr.confidence
  /\ Len(pRetr.results) > 0
  /\ apiKey
  /\ pPc = "done"


(***************************************************************************)
(* Retriever: the calls of retrieve and retrieveFiltered.                  *)
(***************************************************************************)
\* C24: loadIndex never hands a snapshot whose records have embeddings of
\* different dimensions to its caller: a call of retrieve that finds such
\* a snapshot ends with the load error and never reaches the scoring.
C24_MixedDimensionsFailAtLoad ==
  \A c \in Callers :
     (cPc[c] # "idle" /\ ~loadIndex(file).null
        /\ MixedDimensions(loadIndex(file).data.chunks)) =>
       /\ cPc[c] = "done"
       /\ ~MixedDimensions(cIndex[c].chunks)
       /\ cOut[c].status = "rejected"
       /\ cOut[c].error = "No RAG index found"

\* C27: no step of retrieve or retrieveFiltered changes index.json, and a
\* call that resolves, whatever the other calls do meanwhile, resolves
\* with the response to its own arguments: response.query is the question
\* passed in, and the results are those of the persisted snapshot.
C27_ReadOnlyOwnResponse ==
  /\ [][file' = file]_vars
  /\ [](\A c \in Callers :
          cOut[c].status = "resolved" =>
            /\ cOut[c].query = cCall[c].question
            /\ ~loadIndex(file).null
            /\ cOut[c] = respond(cCall[c], loadIndex(file).data, cVec[c]))

\* two calls with different questions are resolved at once, one having
\* been answered while the other was waiting for its query vector
C27_Witness ==
  /\ cOut["c1"].status = "resolved" /\ cOut["c2"].status = "resolved"
  /\ cCall["c1"].question # cCall["c2"].question
  /\ cCall["c1"].fn # cCall["c2"].fn
  /\ Len(cOut["c1"].results) > 0 /\ Len(cOut["c2"].results) > 0


\* C28: whenever retrieve has scored the records of the loaded snapshot,
\* the query vector came from the same embedding mode as every record
\* vector: the model's, or hashEmbed's.
C28_QueryModeIsRecordMode ==
  \A c \in Callers :
     cOut[c].status = "resolved" =>
        \A i \in 1..Len(cIndex[c].chunks) :
           cIndex[c].chunks[i].embedding.mode = cVec[c].mode

====
